---- MODULE Spec2Model ----
(***************************************************************************)
(* Model of the Librarian command engine (src/engine.py) on top of its     *)
(* metadata store.  The store (backend_sqlite3, book_shelf_bos) is not     *)
(* part of the sources; its row operations are modelled after section 4.3  *)
(* of the specification (the definitions named db_...). The store has one *)
(* connection: row changes are visible to every later read at once and     *)
(* reach the disk image at the next commit.                                *)
(***************************************************************************)
EXTENDS Integers, Sequences, FiniteSets, TLC

\* ---------------------------------------------------------------- bounds
MaxBook      == 2      \* books 1..MaxBook, dealt to the nodes in turn
MaxSizeBytes == 3      \* largest size_bytes a client asks for
BooksPerNode == 2      \* books of each node of the policies' rack
MaxNeeded    == 5      \* most books a caller asks a policy for
MaxTime      == 3      \* seconds the descriptor manager's clock runs
MaxMappings  == 2      \* most userVAs kept in one descriptor entry
MaxPerIG     == 3      \* most books of an interleave group of the shadow
ManyIGs      == 11     \* interleave groups of the large shadow
MaxBos       == 2      \* most books of a shelf open in the shadow
MaxLen       == 3      \* most bytes of one read or write of the shadow

\* ------------------------------------------------------ program constants
book_size_bytes == 2

EINVAL    == 22
ENOENT    == 2
EBUSY     == 16
ENOSPC    == 28
EBADF     == 9
EBADFD    == 77
EREMOTEIO == 121
ESTALE    == 116
EUCLEAN   == 117
ENOSYS    == 38

ALLOC_FREE   == "FREE"
ALLOC_INUSE  == "INUSE"
ALLOC_ZOMBIE == "ZOMBIE"

None == [none |-> TRUE]

\* None where the code expects the value of an xattr, a string
NoValue == "<None>"

\* ----------------------------------------------- what the clients may send
Nodes       == {1, 2}          \* node ids, one interleave group each
BookIds     == 1 .. MaxBook
Names       == {"a", "b"}      \* shelf names
ShelfIds    == {1, 2}          \* row ids the store hands out for shelves
Handles     == {1}             \* handles the store hands out for opens
StaleHandle == Cardinality(Handles) + 1   \* a handle never handed out
Sizes       == 0 .. MaxSizeBytes
Mtimes      == {0}
XattrNames  == {"user.LFS.AllocationPolicy"}
XattrValues == {"LocalNode"}

\* db and reply belong to the command engine, pol to the allocation
\* policies (book_policy.py), dm to the descriptor manager (descmgmt.py) and
\* shadow to the shadow layer (lfs_shadow.py); a component that is not
\* running holds None
VARIABLES db, reply, pol, dm, shadow

vars == <<db, reply, pol, dm, shadow>>

\* ------------------------------------------------------------ the store
Tables(d) ==
    [shelves |-> d.shelves, books |-> d.books, bos |-> d.bos,
     xattrs |-> d.xattrs, opened |-> d.opened]

db_commit(d) == [d EXCEPT !.disk = Tables(d)]

db_rollback(d) ==
    [shelves |-> d.disk.shelves, books |-> d.disk.books, bos |-> d.disk.bos,
     xattrs |-> d.disk.xattrs, opened |-> d.disk.opened, disk |-> d.disk]

db_get_shelf(d, name, id, match_id) ==
    LET m == {i \in DOMAIN d.shelves :
                 d.shelves[i].name = name /\ (match_id => i = id)}
    IN  IF m = {} THEN None ELSE d.shelves[CHOOSE i \in m : TRUE]

\* new_id is the row id the store picks for the new row
db_create_shelf(d, name, new_id) ==
    db_commit([d EXCEPT !.shelves =
        [i \in DOMAIN d.shelves \cup {new_id} |->
            IF i = new_id
            THEN [id |-> new_id, name |-> name, size_bytes |-> 0,
                  book_count |-> 0, mtime |-> 0]
            ELSE d.shelves[i]]])

db_modify_shelf(d, shelf, commit) ==
    LET d1 == [d EXCEPT !.shelves[shelf.id] = shelf]
    IN  IF commit THEN db_commit(d1) ELSE d1

db_delete_shelf(d, shelf, commit) ==
    LET d1 == [d EXCEPT !.shelves =
                  [i \in DOMAIN d.shelves \ {shelf.id} |-> d.shelves[i]]]
    IN  IF commit THEN db_commit(d1) ELSE d1

db_get_book_by_id(d, book_id) ==
    IF book_id \in DOMAIN d.books THEN d.books[book_id] ELSE None

db_modify_book(d, book) == [d EXCEPT !.books[book.id] = book]

\* the books of a node in a given allocation state
BooksByNode(d, node_id, alloc) ==
    {b \in DOMAIN d.books :
        d.books[b].node_id = node_id /\ d.books[b].allocated = alloc}

Min(a, b) == IF a < b THEN a ELSE b

\* the lists get_book_by_node may return: up to limit distinct matching books
db_get_book_by_node(d, node_id, alloc, limit) ==
    LET S == BooksByNode(d, node_id, alloc)
        n == Min(limit, Cardinality(S))
    IN  {q \in [1 .. n -> S] : \A i, j \in 1 .. n : q[i] = q[j] => i = j}

db_create_bos(d, thisbos) == [d EXCEPT !.bos = @ \cup {thisbos}]

db_delete_bos(d, thisbos) == [d EXCEPT !.bos = @ \ {thisbos}]

BosRows(d, shelf_id) == {r \in d.bos : r.shelf_id = shelf_id}

RECURSIVE SortBos(_)
SortBos(rows) ==
    IF rows = {} THEN <<>>
    ELSE LET last == CHOOSE r \in rows :
                        \A o \in rows : o.seq_num < r.seq_num
                                        \/ (o.seq_num = r.seq_num
                                            /\ o.book_id <= r.book_id)
         IN  Append(SortBos(rows \ {last}), last)

\* the BOS rows of a shelf, ordered by seq_num
db_get_bos_by_shelf_id(d, shelf_id) == SortBos(BosRows(d, shelf_id))

db_get_xattr(d, shelf, xattr) ==
    IF <<shelf.id, xattr>> \in DOMAIN d.xattrs
    THEN d.xattrs[<<shelf.id, xattr>>] ELSE NoValue

db_list_xattrs(d, shelf) == {k[2] : k \in {x \in DOMAIN d.xattrs : x[1] = shelf.id}}

db_create_xattr(d, shelf, xattr, value) ==
    db_commit([d EXCEPT !.xattrs =
        [k \in DOMAIN d.xattrs \cup {<<shelf.id, xattr>>} |->
            IF k = <<shelf.id, xattr>> THEN value ELSE d.xattrs[k]]])

db_modify_xattr(d, shelf, xattr, value) ==
    db_commit([d EXCEPT !.xattrs[<<shelf.id, xattr>>] = value])

db_delete_xattr(d, shelf, xattr) ==
    [d EXCEPT !.xattrs =
        [k \in DOMAIN d.xattrs \ {<<shelf.id, xattr>>} |-> d.xattrs[k]]]

db_open_count(d, shelf) ==
    Cardinality({h \in DOMAIN d.opened : d.opened[h].shelf_id = shelf.id})

\* 'get': a row for the context under a handle no live open holds
db_opened_get(d, shelf, context, new_handle) ==
    db_commit([d EXCEPT !.opened =
        [h \in DOMAIN d.opened \cup {new_handle} |->
            IF h = new_handle
            THEN [shelf_id |-> shelf.id]
            ELSE d.opened[h]]])

\* 'put': the row of the handle is removed
db_opened_put(d, handle) ==
    db_commit([d EXCEPT !.opened =
        [h \in DOMAIN d.opened \ {handle} |-> d.opened[h]]])

\* ------------------------------------------------------------ the engine
\* what a handler leaves behind: the store, self.errno, the message of the
\* exception it raised ("" when it returned) and its return value
Ok(d, errno, ret) == [db |-> d, errno |-> errno, errmsg |-> "", ret |-> ret]

Raise(d, errno, errmsg) ==
    [db |-> d, errno |-> errno, errmsg |-> errmsg, ret |-> None]

CeilDiv(a, b) == IF a % b = 0 THEN a \div b ELSE (a \div b) + 1

\* slip: the quotient is truncated, not rounded up
_nbooks_floor(nbytes) == nbytes \div book_size_bytes

_nbooks(nbytes) == CeilDiv(nbytes, book_size_bytes)

cmd_get_shelf(d, cmdict, match_id) ==
    LET shelf == db_get_shelf(d, cmdict.name, cmdict.id, match_id)
    IN  IF shelf = None THEN Raise(d, ENOENT, "no such shelf")
        ELSE IF _nbooks(shelf.size_bytes) # shelf.book_count
        THEN Raise(d, EBADF, "size metadata mismatch")
        ELSE Ok(d, ESTALE, shelf)

cmd_open_shelf(d, cmdict, new_handle) ==
    LET g == cmd_get_shelf(d, cmdict, FALSE)
    IN  IF g.errmsg # "" THEN g
        ELSE Ok(db_opened_get(g.db, g.ret, cmdict.context, new_handle),
                g.errno, [shelf |-> g.ret, open_handle |-> new_handle])

\* slip: the shelf is created without the probe for an existing one
cmd_create_shelf_always(d, cmdict, new_id, new_handle) ==
    cmd_open_shelf(db_create_shelf(d, cmdict.name, new_id), cmdict,
                   new_handle)

cmd_create_shelf(d, cmdict, new_id, new_handle) ==
    LET o == cmd_open_shelf(d, cmdict, new_handle)
    IN  IF o.errmsg = "" THEN o
        ELSE cmd_open_shelf(db_create_shelf(o.db, cmdict.name, new_id),
                            cmdict, new_handle)

cmd_close_shelf(d, cmdict) ==
    IF cmdict.handle \in DOMAIN d.opened
    THEN Ok(db_opened_put(d, cmdict.handle), 0,
            [open_handle |-> cmdict.handle])
    ELSE Raise(d, 0, "no such handle")

_list_shelf_books(d, shelf) ==
    LET bos == db_get_bos_by_shelf_id(d, shelf.id)
    IN  IF shelf.id = 0 THEN Raise(d, EBADF, "not open")
        ELSE IF Len(bos) # shelf.book_count
        THEN Raise(d, EREMOTEIO, "book count mismatch")
        ELSE IF _nbooks(shelf.size_bytes) # shelf.book_count
        THEN Raise(d, EREMOTEIO, "size metadata mismatch")
        ELSE Ok(d, EREMOTEIO, bos)

\* slip: a book is freed whatever state it is in
_set_book_alloc_anyfree(d, book_id, newalloc) ==
    LET book == db_get_book_by_id(d, book_id)
    IN  IF book = None THEN Raise(d, ENOENT, "Book lookup failed")
        ELSE IF newalloc = ALLOC_INUSE /\ book.allocated # ALLOC_FREE
        THEN Raise(d, EUCLEAN, "Book allocation")
        ELSE IF newalloc = ALLOC_ZOMBIE /\ book.allocated # ALLOC_INUSE
        THEN Raise(d, EUCLEAN, "Book allocation")
        ELSE Ok(db_modify_book(d, [book EXCEPT !.allocated = newalloc]),
                ENOENT, [book EXCEPT !.allocated = newalloc])

_set_book_alloc(d, book_id, newalloc) ==
    LET book == db_get_book_by_id(d, book_id)
    IN  IF book = None THEN Raise(d, ENOENT, "Book lookup failed")
        ELSE IF newalloc = ALLOC_INUSE /\ book.allocated # ALLOC_FREE
        THEN Raise(d, EUCLEAN, "Book allocation")
        ELSE IF newalloc = ALLOC_ZOMBIE /\ book.allocated # ALLOC_INUSE
        THEN Raise(d, EUCLEAN, "Book allocation")
        ELSE IF newalloc = ALLOC_FREE /\ book.allocated # ALLOC_ZOMBIE
        THEN Raise(d, EUCLEAN, "Book allocation")
        ELSE IF newalloc \notin {ALLOC_INUSE, ALLOC_ZOMBIE, ALLOC_FREE}
        THEN Raise(d, EUCLEAN, "Bad book allocation")
        ELSE Ok(db_modify_book(d, [book EXCEPT !.allocated = newalloc]),
                ENOENT, [book EXCEPT !.allocated = newalloc])

\* slip: the BOS rows are left in place
RECURSIVE ZombifyRows_keep(_, _)
ZombifyRows_keep(r, rows) ==
    IF r.errmsg # "" \/ rows = <<>> THEN r
    ELSE ZombifyRows_keep(
            _set_book_alloc(r.db, Head(rows).book_id, ALLOC_ZOMBIE),
            Tail(rows))

\* for thisbos in rows: delete_bos, then the book goes IN_USE -> ZOMBIE
RECURSIVE ZombifyRows(_, _)
ZombifyRows(r, rows) ==
    IF r.errmsg # "" \/ rows = <<>> THEN r
    ELSE ZombifyRows(
            _set_book_alloc(db_delete_bos(r.db, Head(rows)),
                            Head(rows).book_id, ALLOC_ZOMBIE),
            Tail(rows))

\* slip: the xattrs of the shelf are left in place
DeleteXattrs_none(d, shelf, xattrs) == d

RECURSIVE DeleteXattrs(_, _, _)
DeleteXattrs(d, shelf, xattrs) ==
    IF xattrs = {} THEN d
    ELSE LET x == CHOOSE x \in xattrs : TRUE
         IN  DeleteXattrs(db_delete_xattr(d, shelf, x), shelf, xattrs \ {x})

cmd_destroy_shelf(d, cmdict) ==
    LET g == cmd_get_shelf(d, cmdict, FALSE)
    IN  IF g.errmsg # "" THEN g
        ELSE IF db_open_count(g.db, g.ret) # 0
        THEN Raise(g.db, g.errno, "has active opens")
        ELSE
        LET l == _list_shelf_books(g.db, g.ret)
        IN  IF l.errmsg # "" THEN l
            ELSE
            LET xattrs == db_list_xattrs(l.db, g.ret)
                z == ZombifyRows(Ok(l.db, l.errno, None), l.ret)
            IN  IF z.errmsg # "" THEN z
                ELSE Ok(db_delete_shelf(DeleteXattrs(z.db, g.ret, xattrs),
                                        g.ret, TRUE),
                        z.errno, g.ret)

\* for book in books: the book goes ZOMBIE -> FREE
RECURSIVE FreeBooks(_, _)
FreeBooks(r, books) ==
    IF r.errmsg # "" \/ books = <<>> THEN r
    ELSE FreeBooks(_set_book_alloc(r.db, Head(books), ALLOC_FREE),
                   Tail(books))

\* kill_zombie_books that frees the zombies of every node
cmd_kill_zombie_books_all(d, cmdict, zombies) ==
    LET all == SortBos({[seq_num |-> b, book_id |-> b] :
                          b \in {x \in DOMAIN d.books :
                                   d.books[x].allocated = ALLOC_ZOMBIE}})
        f == FreeBooks(Ok(d, 0, None),
                       [i \in 1 .. Len(all) |-> all[i].book_id])
    IN  IF f.errmsg # "" THEN f
        ELSE Ok(db_commit(f.db), f.errno, None)

\* slip: the first of the zombies is passed over
cmd_kill_zombie_books_skip(d, cmdict, zombies) ==
    LET f == FreeBooks(Ok(d, 0, None),
                       IF zombies = <<>> THEN zombies ELSE Tail(zombies))
    IN  IF f.errmsg # "" THEN f
        ELSE Ok(db_commit(f.db), f.errno, None)

\* zombies is the list get_book_by_node returned
cmd_kill_zombie_books(d, cmdict, zombies) ==
    LET f == FreeBooks(Ok(d, 0, None), zombies)
    IN  IF f.errmsg # "" THEN f
        ELSE Ok(db_commit(f.db), f.errno, None)

RECURSIVE LogZeroIds(_, _, _)
LogZeroIds(r, node_id, ids) ==
    IF r.errmsg # "" \/ ids = <<>> THEN r
    ELSE LET book == db_get_book_by_id(r.db, Head(ids))
         IN  IF book = None
             THEN Raise(r.db, r.errno, "INTERNAL ERROR: no attribute node_id")
             ELSE IF book.node_id # node_id
             THEN Raise(r.db, r.errno, "Attempted off-node zeroing")
             ELSE LogZeroIds(_set_book_alloc(r.db, Head(ids), ALLOC_FREE),
                             node_id, Tail(ids))

cmd_log_zero(d, cmdict) ==
    LET z == LogZeroIds(Ok(d, EINVAL, None), cmdict.context.node_id,
                        cmdict.ids)
    IN  IF z.errmsg # "" THEN z
        ELSE Ok(db_commit(z.db), z.errno, None)

\* slip: a row takes the seq_num before the increment
RECURSIVE BindBooks_late(_, _, _, _)
BindBooks_late(r, shelf, seq_num, freebooks) ==
    IF r.errmsg # "" \/ freebooks = <<>> THEN r
    ELSE LET a == _set_book_alloc(r.db, Head(freebooks), ALLOC_INUSE)
         IN  IF a.errmsg # "" THEN a
             ELSE BindBooks_late(
                    Ok(db_create_bos(a.db,
                          [shelf_id |-> shelf.id, book_id |-> a.ret.id,
                           seq_num |-> seq_num]),
                       a.errno, None),
                    shelf, seq_num + 1, Tail(freebooks))

\* for book in freebooks: FREE -> IN_USE and a BOS row with the next seq_num
RECURSIVE BindBooks(_, _, _, _)
BindBooks(r, shelf, seq_num, freebooks) ==
    IF r.errmsg # "" \/ freebooks = <<>> THEN r
    ELSE LET a == _set_book_alloc(r.db, Head(freebooks), ALLOC_INUSE)
         IN  IF a.errmsg # "" THEN a
             ELSE BindBooks(
                    Ok(db_create_bos(a.db,
                          [shelf_id |-> shelf.id, book_id |-> a.ret.id,
                           seq_num |-> seq_num + 1]),
                       a.errno, None),
                    shelf, seq_num + 1, Tail(freebooks))

\* slip: the rows are popped from the front of the list
RECURSIVE PopBooks_front(_, _, _)
PopBooks_front(r, bos, books_2bdel) ==
    IF r.errmsg # "" \/ books_2bdel = 0 THEN r
    ELSE LET thisbos == bos[1]
         IN  PopBooks_front(
                _set_book_alloc(db_delete_bos(r.db, thisbos),
                                thisbos.book_id, ALLOC_ZOMBIE),
                Tail(bos), books_2bdel - 1)

\* while books_2bdel > 0: bos.pop(), delete_bos, IN_USE -> ZOMBIE
RECURSIVE PopBooks(_, _, _)
PopBooks(r, bos, books_2bdel) ==
    IF r.errmsg # "" \/ books_2bdel = 0 THEN r
    ELSE LET thisbos == bos[Len(bos)]
         IN  PopBooks(
                _set_book_alloc(db_delete_bos(r.db, thisbos),
                                thisbos.book_id, ALLOC_ZOMBIE),
                SubSeq(bos, 1, Len(bos) - 1), books_2bdel - 1)

\* slip: the books at hand are bound without the count being checked
GrowShelf_short(d, shelf, freebooks, books_needed) ==
    BindBooks(Ok(d, ENOSPC, None), shelf, shelf.book_count, freebooks)

\* if books_needed > 0; freebooks is the list get_book_by_node returned
GrowShelf(d, shelf, freebooks, books_needed) ==
    IF Len(freebooks) # books_needed
    THEN Raise(d, ENOSPC, "out of space on node")
    ELSE BindBooks(Ok(d, ENOSPC, None), shelf, shelf.book_count, freebooks)

Reverse(q) == [i \in 1 .. Len(q) |-> q[Len(q) + 1 - i]]

\* slip: the rows are taken from the head of the list
ShrinkShelf_head(d, bos, books_2bdel) ==
    IF Len(bos) < books_2bdel
    THEN Raise(d, EREMOTEIO, "Book removal problem")
    ELSE PopBooks(Ok(d, EREMOTEIO, None), Reverse(bos), books_2bdel)

\* elif books_needed < 0
ShrinkShelf(d, bos, books_2bdel) ==
    IF Len(bos) < books_2bdel
    THEN Raise(d, EREMOTEIO, "Book removal problem")
    ELSE PopBooks(Ok(d, EREMOTEIO, None), bos, books_2bdel)

\* slip: a new size within the same book count is not stored
cmd_resize_shelf_samesize(d, cmdict, freebooks) ==
    LET g == cmd_get_shelf(d, cmdict, TRUE)
    IN  IF g.errmsg # "" THEN g
        ELSE
        LET l == _list_shelf_books(g.db, g.ret)
        IN  IF l.errmsg # "" THEN l
            ELSE
            LET shelf == g.ret
                bos == l.ret
                new_size_bytes == cmdict.size_bytes
                new_book_count == _nbooks(new_size_bytes)
                seqs == {bos[i].seq_num : i \in 1 .. Len(bos)}
                e == IF bos # <<>> THEN EBADFD ELSE EINVAL
                sized == [shelf EXCEPT !.size_bytes = new_size_bytes]
                books_needed == new_book_count - shelf.book_count
                done == IF books_needed > 0
                        THEN GrowShelf(l.db, shelf, freebooks, books_needed)
                        ELSE ShrinkShelf(l.db, bos, 0 - books_needed)
            IN  IF new_size_bytes < 0 THEN Raise(l.db, EINVAL, "Bad size")
                ELSE IF bos # <<>> /\ seqs # 1 .. shelf.book_count
                THEN Raise(l.db, EBADFD, "Corrupt BOS sequence progression")
                ELSE IF new_size_bytes = shelf.size_bytes
                THEN Ok(l.db, e, shelf)
                ELSE IF new_book_count = shelf.book_count
                THEN Ok(l.db, e, shelf)
                ELSE IF done.errmsg # "" THEN done
                ELSE Ok(db_modify_shelf(done.db,
                            [sized EXCEPT !.book_count = new_book_count],
                            TRUE),
                        done.errno,
                        [sized EXCEPT !.book_count = new_book_count])

\* freebooks is the list get_book_by_node returns for the books needed
cmd_resize_shelf(d, cmdict, freebooks) ==
    LET g == cmd_get_shelf(d, cmdict, TRUE)
    IN  IF g.errmsg # "" THEN g
        ELSE
        LET l == _list_shelf_books(g.db, g.ret)
        IN  IF l.errmsg # "" THEN l
            ELSE
            LET shelf == g.ret
                bos == l.ret
                new_size_bytes == cmdict.size_bytes
                new_book_count == _nbooks(new_size_bytes)
                seqs == {bos[i].seq_num : i \in 1 .. Len(bos)}
                e == IF bos # <<>> THEN EBADFD ELSE EINVAL
                sized == [shelf EXCEPT !.size_bytes = new_size_bytes]
                books_needed == new_book_count - shelf.book_count
                done == IF books_needed > 0
                        THEN GrowShelf(l.db, shelf, freebooks, books_needed)
                        ELSE ShrinkShelf(l.db, bos, 0 - books_needed)
            IN  IF new_size_bytes < 0 THEN Raise(l.db, EINVAL, "Bad size")
                ELSE IF bos # <<>> /\ seqs # 1 .. shelf.book_count
                THEN Raise(l.db, EBADFD, "Corrupt BOS sequence progression")
                ELSE IF new_size_bytes = shelf.size_bytes
                THEN Ok(l.db, e, shelf)
                ELSE IF new_book_count = shelf.book_count
                THEN Ok(db_modify_shelf(l.db, sized, TRUE), e, sized)
                ELSE IF done.errmsg # "" THEN done
                ELSE Ok(db_modify_shelf(done.db,
                            [sized EXCEPT !.book_count = new_book_count],
                            TRUE),
                        done.errno,
                        [sized EXCEPT !.book_count = new_book_count])

\* set_xattr that keeps the value a name already has
cmd_set_xattr_keep(d, cmdict) ==
    LET g == cmd_get_shelf(d, cmdict, FALSE)
    IN  IF g.errmsg # "" THEN g
        ELSE IF cmdict.xattr \in db_list_xattrs(g.db, g.ret)
        THEN Ok(g.db, g.errno, None)
        ELSE Ok(db_create_xattr(g.db, g.ret, cmdict.xattr, cmdict.value),
                g.errno, None)

cmd_set_xattr(d, cmdict) ==
    LET g == cmd_get_shelf(d, cmdict, FALSE)
    IN  IF g.errmsg # "" THEN g
        ELSE IF cmdict.xattr \in db_list_xattrs(g.db, g.ret)
        THEN Ok(db_modify_xattr(g.db, g.ret, cmdict.xattr, cmdict.value),
                g.errno, None)
        ELSE Ok(db_create_xattr(g.db, g.ret, cmdict.xattr, cmdict.value),
                g.errno, None)

cmd_set_am_time(d, cmdict) ==
    LET g == cmd_get_shelf(d, cmdict, FALSE)
    IN  IF g.errmsg # "" THEN g
        ELSE Ok(db_modify_shelf(g.db, [g.ret EXCEPT !.mtime = cmdict.mtime],
                                TRUE),
                g.errno, None)

cmd_get_xattr(d, cmdict) ==
    LET g == cmd_get_shelf(d, cmdict, FALSE)
    IN  IF g.errmsg # "" THEN g
        ELSE Ok(g.db, g.errno,
                [value |-> db_get_xattr(g.db, g.ret, cmdict.xattr)])

\* get_shelf_zaddr raises NotImplementedError, a RuntimeError, with self.errno
\* as __call__ has reset it
cmd_get_shelf_zaddr(d, cmdict) ==
    Raise(d, 0, "INTERNAL ERROR @ LibrarianCommandEngine")

\* the commands the engine answers: its cmd_ methods
commandset ==
    {"version", "get_fs_stats", "create_shelf", "get_shelf",
     "list_shelves", "open_shelf", "close_shelf",
     "list_shelf_books", "destroy_shelf", "kill_zombie_books", "log_zero",
     "resize_shelf", "get_shelf_zaddr", "get_book", "get_xattr",
     "list_xattrs", "set_xattr", "set_am_time", "send_OOB"}

\* __call__ on a command that is not in _commands
\* slip: a command that is not in _commands is answered as done
lookup_failed_quiet(d) == Ok(d, 0, None)

lookup_failed(d) == Raise(d, ENOSYS, "engine failed lookup")

\* ------------------------------------------------- the allocation policies
POLICY_DEFAULT == "RandomBooks"

_policies ==
    <<POLICY_DEFAULT, "LocalNode", "Nearest", "LZAascending",
      "LZAdescending">>

\* xattr.split('.') on the names a client sends
split(xattr) ==
    CASE xattr = "user.LFS.AllocationPolicy" ->
            <<"user", "LFS", "AllocationPolicy">>
      [] xattr = "user.LFS.AllocationPolicyList" ->
            <<"user", "LFS", "AllocationPolicyList">>
      [] xattr = "user.LFS.Interleave" -> <<"user", "LFS", "Interleave">>
      [] xattr = "user.LFS.Other" -> <<"user", "LFS", "Other">>
      [] xattr = "user.LFS.a.b" -> <<"user", "LFS", "a", "b">>
      [] xattr = "user.foo" -> <<"user", "foo">>

_node2ig(node) == node - 1

\* the interleave group of a book row: pinned 1:1 to its node
intlv_group(book) == _node2ig(book.node_id)

\* the interleave groups of the books of a shelf, in shelf order
db_get_books_on_shelf(d, shelf) ==
    LET bos == db_get_bos_by_shelf_id(d, shelf.id)
    IN  [i \in 1 .. Len(bos) |-> intlv_group(d.books[bos[i].book_id])]

\* BookPolicy.xattr_assist; elems[1] of the code is the second element
xattr_assist(d, cmdict, setting, removing) ==
    LET xattr == cmdict.xattr
        value == IF "value" \in DOMAIN cmdict THEN cmdict.value ELSE NoValue
        elems == split(xattr)
    IN  IF setting /\ value = NoValue
        THEN Raise(d, EINVAL, "Trying to set a null value")
        ELSE IF elems[2] # "LFS" THEN Ok(d, EINVAL, <<xattr, value>>)
        ELSE IF Len(elems) # 3
        THEN Raise(d, EINVAL, "LFS xattrs are of form user.LFS.xxx")
        ELSE IF removing
        THEN Raise(d, EINVAL, "Removal of LFS xattrs is prohibited")
        ELSE IF elems[3] = "AllocationPolicy"
        THEN IF setting /\ ~(\E i \in DOMAIN _policies : _policies[i] = value)
             THEN Raise(d, EINVAL, "Bad AllocationPolicy")
             ELSE Ok(d, EINVAL, <<xattr, value>>)
        ELSE IF elems[3] = "AllocationPolicyList"
        THEN IF setting
             THEN Raise(d, EINVAL, "Setting AllocationPolicyList is prohibited")
             ELSE Ok(d, EINVAL, <<xattr, _policies>>)
        ELSE IF elems[3] = "Interleave"
        THEN IF setting
             THEN Raise(d, EINVAL, "Setting Interleave is prohibited")
             ELSE LET g == cmd_get_shelf(d, cmdict, FALSE)
                  IN  IF g.errmsg # "" THEN g
                      ELSE Ok(g.db, g.errno,
                              <<xattr, db_get_books_on_shelf(g.db, g.ret)>>)
        ELSE Raise(d, EINVAL, "Bad LFS attribute")

\* --- the store's view of the books for the policies; books is the table
RECURSIVE SortIds(_)
SortIds(S) ==
    IF S = {} THEN <<>>
    ELSE LET m == CHOOSE x \in S : \A y \in S : x <= y
         IN  <<m>> \o SortIds(S \ {m})

Take(q, n) == SubSeq(q, 1, Min(n, Len(q)))

\* FREE books whose interleave group is (or, with exclude, is not) in IGs,
\* in book id order, at most limit of them
db_get_books_by_intlv_group(books, limit, IGs, exclude, ascending) ==
    LET S == {b \in DOMAIN books :
                /\ books[b].allocated = ALLOC_FREE
                /\ (intlv_group(books[b]) \in IGs) # exclude}
        q == SortIds(S)
    IN  Take(IF ascending THEN q ELSE Reverse(q), limit)

\* the first n of what random.shuffle may leave behind: any n of q in any
\* order, all of q when it is shorter
RECURSIVE ShuffledTake(_, _)
ShuffledTake(q, n) ==
    IF q = <<>> \/ n <= 0 THEN {<<>>}
    ELSE UNION {{<<q[i]>> \o s :
                    s \in ShuffledTake(SubSeq(q, 1, i - 1)
                                       \o SubSeq(q, i + 1, Len(q)), n - 1)} :
                i \in 1 .. Len(q)}

\* slip: one book more than asked for
_IGs2books_more(books, books_needed, IGs, exclude, shuffle) ==
    LET got == db_get_books_by_intlv_group(books, 999999, IGs, exclude, TRUE)
    IN  IF shuffle THEN ShuffledTake(got, books_needed + 1)
        ELSE {Take(got, books_needed + 1)}

_IGs2books(books, books_needed, IGs, exclude, shuffle) ==
    LET tmp == IF shuffle THEN 999999 ELSE books_needed
        got == db_get_books_by_intlv_group(books, tmp, IGs, exclude, TRUE)
    IN  IF shuffle THEN ShuffledTake(got, books_needed)
        ELSE {Take(got, books_needed)}

\* books of any node, whatever nodes are asked for
_nodes2books_any(books, books_needed, nodes, shuffle) ==
    _IGs2books(books, books_needed, {99999}, TRUE, shuffle)

_nodes2books(books, books_needed, nodes, shuffle) ==
    _IGs2books(books, books_needed, {_node2ig(n) : n \in nodes}, FALSE,
               shuffle)

\* the enclosure of a node: ten nodes each
FRDnode_enc(node) == ((node - 1) \div 10) + 1

\* nnodes is len(LCEobj.nodes); the result is the set of lists the policy
\* may return
_policy_Nearest(books, context, nnodes, books_needed, LocalNode) ==
    LET node == context.node_id
        enc == FRDnode_enc(node)
        lo == ((enc - 1) * 10) + 1
        encnodes == lo .. (lo + 9)
        allnodes == 1 .. nnodes
    IN  UNION {
          IF LocalNode \/ books_needed - Len(localbooks) = 0
          THEN {localbooks}
          ELSE UNION {
            IF books_needed - Len(localbooks) - Len(encbooks) = 0
            THEN {localbooks \o encbooks}
            ELSE {localbooks \o encbooks \o nonencbooks :
                    nonencbooks \in _nodes2books(books,
                        books_needed - Len(localbooks) - Len(encbooks),
                        allnodes \ encnodes, TRUE)}
            : encbooks \in _nodes2books(books,
                               books_needed - Len(localbooks),
                               encnodes \ {node}, TRUE)}
          : localbooks \in _nodes2books(books, books_needed, {node}, FALSE)}

\* LocalNode that goes on to the enclosure and the rack
_policy_LocalNode_on(books, context, nnodes, books_needed) ==
    _policy_Nearest(books, context, nnodes, books_needed, FALSE)

_policy_LocalNode(books, context, nnodes, books_needed) ==
    _policy_Nearest(books, context, nnodes, books_needed, TRUE)

_policy_RandomBooks(books, books_needed) ==
    _IGs2books(books, books_needed, {99999}, TRUE, TRUE)

_policy_LZAascending(books, books_needed, ascending) ==
    {db_get_books_by_intlv_group(books, books_needed, {999999}, TRUE,
                                 ascending)}

\* LZAdescending in ascending order
_policy_LZAdescending_up(books, books_needed) ==
    _policy_LZAascending(books, books_needed, TRUE)

_policy_LZAdescending(books, books_needed) ==
    _policy_LZAascending(books, books_needed, FALSE)

\* BookPolicy.__init__: the policy of a shelf is its xattr
BookPolicy__init__(d, shelf) ==
    LET name == db_get_xattr(d, shelf, "user.LFS.AllocationPolicy")
    IN  IF \E i \in DOMAIN _policies : _policies[i] = name
        THEN Ok(d, EINVAL, name)
        ELSE Raise(d, EINVAL, "Unknown policy")

\* BookPolicy.__call__ for a policy name that __init__ has accepted
BookPolicy__call__(name, books, context, nnodes, books_needed) ==
    CASE name = "LocalNode" ->
            _policy_LocalNode(books, context, nnodes, books_needed)
      [] name = "Nearest" ->
            _policy_Nearest(books, context, nnodes, books_needed, FALSE)
      [] name = "RandomBooks" -> _policy_RandomBooks(books, books_needed)
      [] name = "LZAascending" ->
            _policy_LZAascending(books, books_needed, TRUE)
      [] name = "LZAdescending" -> _policy_LZAdescending(books, books_needed)

\* ---------------------------------------------------------- the dispatch
Tables0 ==
    [shelves |-> <<>>,
     books   |-> [b \in BookIds |->
                    [id |-> b, node_id |-> IF b % 2 = 1 THEN 1 ELSE 2,
                     allocated |-> ALLOC_FREE]],
     bos     |-> {},
     xattrs  |-> <<>>,
     opened  |-> <<>>]

Init ==
    /\ db = [shelves |-> Tables0.shelves, books |-> Tables0.books,
             bos |-> Tables0.bos, xattrs |-> Tables0.xattrs,
             opened |-> Tables0.opened, disk |-> Tables0]
    /\ reply = [command |-> "none", errmsg |-> "", errno |-> 0,
                value |-> None]
    /\ pol = None
    /\ dm = None
    /\ shadow = None

\* LibrarianCommandEngine.__call__ around a handler that left r behind
Call(cmdict, r) ==
    /\ db' = r.db
    /\ reply' = [command |-> cmdict.command, errmsg |-> r.errmsg,
                 errno |-> IF r.errmsg # "" THEN r.errno ELSE 0,
                 value |-> r.ret]
    /\ UNCHANGED <<pol, dm, shadow>>

Contexts == [node_id : Nodes]

\* the context of a command whose handler and store rows do not read it
AnyContext == [node_id |-> 1]

\* the row id of a new shelf: one no shelf holds (0 when none is created)
NewShelfIds(name) ==
    IF db_get_shelf(db, name, 0, FALSE) # None THEN {0}
    ELSE ShelfIds \ DOMAIN db.shelves

FreeHandles == Handles \ DOMAIN db.opened

CreateShelf ==
    \E name \in Names, new_handle \in FreeHandles :
    \E new_id \in NewShelfIds(name) :
        LET cmdict == [command |-> "create_shelf", name |-> name, id |-> 0,
                       context |-> AnyContext]
        IN  Call(cmdict, cmd_create_shelf(db, cmdict, new_id, new_handle))

OpenShelf ==
    \E name \in Names, new_handle \in FreeHandles :
        LET cmdict == [command |-> "open_shelf", name |-> name, id |-> 0,
                       context |-> AnyContext]
        IN  Call(cmdict, cmd_open_shelf(db, cmdict, new_handle))

CloseShelf ==
    \E handle \in Handles \cup {StaleHandle} :
        LET cmdict == [command |-> "close_shelf", handle |-> handle,
                       context |-> AnyContext]
        IN  Call(cmdict, cmd_close_shelf(db, cmdict))

DestroyShelf ==
    \E name \in Names :
        LET cmdict == [command |-> "destroy_shelf", name |-> name, id |-> 0,
                       context |-> AnyContext]
        IN  Call(cmdict, cmd_destroy_shelf(db, cmdict))

\* the lists the store may return to a resize that has to bind books
FreeLists(cmdict) ==
    LET shelf == db_get_shelf(db, cmdict.name, cmdict.id, TRUE)
        needed == IF shelf = None \/ cmdict.size_bytes < 0 THEN 0
                  ELSE _nbooks(cmdict.size_bytes) - shelf.book_count
    IN  IF needed <= 0 THEN {<<>>}
        ELSE db_get_book_by_node(db, cmdict.context.node_id, ALLOC_FREE,
                                 needed)

ResizeShelf ==
    \E name \in Names, id \in ShelfIds, size_bytes \in Sizes,
       context \in Contexts :
        LET cmdict == [command |-> "resize_shelf", name |-> name, id |-> id,
                       size_bytes |-> size_bytes, context |-> context]
        IN  \E freebooks \in FreeLists(cmdict) :
                Call(cmdict, cmd_resize_shelf(db, cmdict, freebooks))

\* kill_zombie_books from one node
KillZombieBooksFrom(context) ==
    LET cmdict == [command |-> "kill_zombie_books", context |-> context]
    IN  \E zombies \in db_get_book_by_node(db, context.node_id,
                                            ALLOC_ZOMBIE, 9999) :
            Call(cmdict, cmd_kill_zombie_books(db, cmdict, zombies))

KillZombieBooks == \E context \in Contexts : KillZombieBooksFrom(context)

\* id lists of a log_zero: none, one or two book ids
IdLists == UNION {[1 .. n -> BookIds] : n \in {0, 1, 2}}

LogZero ==
    \E ids \in IdLists, context \in Contexts :
        LET cmdict == [command |-> "log_zero", ids |-> ids,
                       context |-> context]
        IN  Call(cmdict, cmd_log_zero(db, cmdict))

SetXattr ==
    \E name \in Names, xattr \in XattrNames, value \in XattrValues :
        LET cmdict == [command |-> "set_xattr", name |-> name, id |-> 0,
                       xattr |-> xattr, value |-> value,
                       context |-> AnyContext]
        IN  Call(cmdict, cmd_set_xattr(db, cmdict))

SetAmTime ==
    \E name \in Names, mtime \in Mtimes :
        LET cmdict == [command |-> "set_am_time", name |-> name, id |-> 0,
                       mtime |-> mtime, context |-> AnyContext]
        IN  Call(cmdict, cmd_set_am_time(db, cmdict))

Next ==
    \/ CreateShelf
    \/ OpenShelf
    \/ CloseShelf
    \/ DestroyShelf
    \/ ResizeShelf
    \/ KillZombieBooks
    \/ LogZero
    \/ SetXattr
    \/ SetAmTime

Spec == Init /\ [][Next]_vars

\* what kill_zombie_books from one node does to the store
ZombiesZeroed(context) ==
    LET cmdict == [command |-> "kill_zombie_books", context |-> context]
    IN  \E zombies \in db_get_book_by_node(db, context.node_id,
                                            ALLOC_ZOMBIE, 9999) :
            db' = cmd_kill_zombie_books(db, cmdict, zombies).db

\* the engine when every node's repl_client keeps sending kill_zombie_books
FairSpec ==
    Init /\ [][Next]_vars
         /\ \A context \in Contexts : WF_db(ZombiesZeroed(context))

\* ------------------------------------------- the xattr commands at large
\* xattr names and values of the xattr commands
SetNames  == {"user.LFS.AllocationPolicy", "user.foo"}
AnyValues == {"RandomBooks", "LocalNode", "Bogus"}

SetXattrAny ==
    \E name \in Names, xattr \in SetNames, value \in AnyValues :
        LET cmdict == [command |-> "set_xattr", name |-> name, id |-> 0,
                       xattr |-> xattr, value |-> value,
                       context |-> AnyContext]
        IN  Call(cmdict, cmd_set_xattr(db, cmdict))

GetXattr ==
    \E name \in Names, xattr \in SetNames :
        LET cmdict == [command |-> "get_xattr", name |-> name, id |-> 0,
                       xattr |-> xattr, context |-> AnyContext]
        IN  Call(cmdict, cmd_get_xattr(db, cmdict))

\* the engine has no remove_xattr: the command fails in the lookup
RemoveXattr ==
    \E name \in Names, xattr \in SetNames :
        LET cmdict == [command |-> "remove_xattr", name |-> name, id |-> 0,
                       xattr |-> xattr, context |-> AnyContext]
        IN  /\ cmdict.command \notin commandset
            /\ Call(cmdict, lookup_failed(db))

XattrNext ==
    \/ CreateShelf
    \/ CloseShelf
    \/ DestroyShelf
    \/ SetXattrAny
    \/ GetXattr
    \/ RemoveXattr
    \/ SetAmTime

XattrSpec == Init /\ [][XattrNext]_vars

\* --------------------------------------- every command tag, known or not
UnknownCommands == {"remove_xattr", "list_open_shelves"}

\* a command tag that is not a key of _commands
Unknown ==
    \E command \in UnknownCommands :
        LET cmdict == [command |-> command, context |-> AnyContext]
        IN  /\ cmdict.command \notin commandset
            /\ Call(cmdict, lookup_failed(db))

GetShelfZaddr ==
    LET cmdict == [command |-> "get_shelf_zaddr", context |-> AnyContext]
    IN  Call(cmdict, cmd_get_shelf_zaddr(db, cmdict))

CallNext ==
    \/ Next
    \/ Unknown
    \/ GetShelfZaddr

CallSpec == Init /\ [][CallNext]_vars

\* ------------------------------------------ the policies at work on a rack
\* the rack of the policies: nodes 1 and 2 share enclosure 1, node 11 is in
\* enclosure 2; every node holds BooksPerNode books
PolicyNodes == {1, 2, 11}
RackNodes   == 2 * 10

\* the id of a book is its LZA: interleave group, then in-group book number
LZA(ig, book_num) == (ig * 8192) + book_num

book_num(id) == id % 8192

RackBookIds ==
    {LZA(_node2ig(n), k) : n \in PolicyNodes, k \in 0 .. (BooksPerNode - 1)}

\* the book tables of the rack: every book FREE or in use
RackTables ==
    {[b \in RackBookIds |->
        [id |-> b, node_id |-> (b \div 8192) + 1, allocated |-> a[b]]] :
     a \in [RackBookIds -> {ALLOC_FREE, ALLOC_INUSE}]}

PolicyInit ==
    /\ db = None
    /\ reply = None
    /\ dm = None
    /\ shadow = None
    /\ pol \in {[books |-> t, name |-> "none", context |-> AnyContext,
                 books_needed |-> 0, ret |-> <<>>] : t \in RackTables}

\* policy = BookPolicy(LCEobj, shelf, context); policy(books_needed): a
\* policy object is made for one request and called once
PolicyCall(name) ==
    /\ pol.name = "none"
    /\ \E node \in PolicyNodes, books_needed \in 0 .. MaxNeeded :
       \E ret \in BookPolicy__call__(name, pol.books, [node_id |-> node],
                                     RackNodes, books_needed) :
        /\ pol' = [pol EXCEPT !.name = name,
                              !.context = [node_id |-> node],
                              !.books_needed = books_needed,
                              !.ret = ret]
        /\ UNCHANGED <<db, reply, dm, shadow>>

CallLocalNode == PolicyCall("LocalNode")

CallNearest == PolicyCall("Nearest")

CallLZAascending == PolicyCall("LZAascending")

CallLZAdescending == PolicyCall("LZAdescending")

\* the request is over and its policy object is gone
PolicyDone ==
    /\ pol.name # "none"
    /\ pol' = [pol EXCEPT !.name = "none", !.context = AnyContext,
                          !.books_needed = 0, !.ret = <<>>]
    /\ UNCHANGED <<db, reply, dm, shadow>>

PolicyNext ==
    \/ PolicyDone
    \/ CallLocalNode
    \/ CallNearest
    \/ CallLZAascending
    \/ CallLZAdescending

PolicySpec == PolicyInit /\ [][PolicyNext]_vars

\* the same for the policy of a shelf that has none set, which does not
\* read the context
CallRandomBooks ==
    /\ pol.name = "none"
    /\ \E books_needed \in 0 .. MaxNeeded :
       \E ret \in BookPolicy__call__("RandomBooks", pol.books, AnyContext,
                                     RackNodes, books_needed) :
        /\ pol' = [pol EXCEPT !.name = "RandomBooks",
                              !.books_needed = books_needed,
                              !.ret = ret]
        /\ UNCHANGED <<db, reply, dm, shadow>>

AllPolicyNext ==
    \/ PolicyNext
    \/ CallRandomBooks

AllPolicySpec == PolicyInit /\ [][AllPolicyNext]_vars

\* ------------------------------------------------- the descriptor manager
\* A descriptor register is kept by its bit fields: the valid bit (bit 0)
\* and the LZA (the bits from _BOOK_SHIFT up); the bits between are zero.
\* The dict _descriptors is a sequence of entries in insertion order; pids
\* maps a pid to the list of its userVAs.
DescLZAs    == {1, 2, 3}        \* the baseLZAs that fault
DescPids    == {1, 2}
DescUserVAs == {4096}
IndexTuples == {<<0, 1>>, <<5, 6>>}     \* indices given to DescMgmt()

Range(q) == {q[i] : i \in DOMAIN q}

Invalid == [valid |-> 0, lza |-> 0]

\* the descriptor tables DescMgmt() may find: what desbk_set has left there
DescTables(indices) ==
    {t \in [Range(indices) -> {Invalid}
                              \cup {[valid |-> 1, lza |-> l] : l \in DescLZAs}] :
        \A i, j \in Range(indices) :
            (t[i].valid = 1 /\ t[j].valid = 1 /\ t[i].lza = t[j].lza)
            => i = j}

\* _LZAinuse.__init__ at time now
_LZAinuse(baseLZA, index, pid, userVA, now) ==
    [baseLZA |-> baseLZA, index |-> index,
     pids |-> IF pid # 0 /\ userVA # 0 THEN (pid :> <<userVA>>) ELSE <<>>,
     mtime |-> IF pid # 0 /\ userVA # 0 THEN now ELSE 0]

\* slip: the entry keeps the time of its last fault
update_stale(self, pid, userVA, now) ==
    [self EXCEPT
        !.pids = IF pid \in DOMAIN self.pids
                 THEN [self.pids EXCEPT ![pid] = Append(@, userVA)]
                 ELSE self.pids @@ (pid :> <<userVA>>)]

\* _LZAinuse.update at time now
update(self, pid, userVA, now) ==
    [self EXCEPT
        !.pids = IF pid \in DOMAIN self.pids
                 THEN [self.pids EXCEPT ![pid] = Append(@, userVA)]
                 ELSE self.pids @@ (pid :> <<userVA>>),
        !.mtime = now]

RECURSIVE SumLen(_, _)
SumLen(pids, S) ==
    IF S = {} THEN 0
    ELSE LET p == CHOOSE x \in S : TRUE
         IN  Len(pids[p]) + SumLen(pids, S \ {p})

\* sum(len(v) for v in self.pids.values())
mappings(self) == SumLen(self.pids, DOMAIN self.pids)

\* _LZAinuse.__lt__
__lt__(self, other) ==
    IF self.mtime >= other.mtime THEN FALSE
    ELSE mappings(self) < mappings(other)

\* min(values): the first value that no later value is less than, each
\* value being compared with the least so far
RECURSIVE min_from(_, _)
min_from(least, values) ==
    IF values = <<>> THEN least
    ELSE min_from(IF __lt__(Head(values), least) THEN Head(values)
                  ELSE least,
                  Tail(values))

min(values) == min_from(Head(values), Tail(values))

\* the descriptor table as __init__ reads it, in the order of _indices
descTable(indices, hw) == [i \in DOMAIN indices |-> hw[indices[i]]]

\* the entries and free indices __init__ makes of the table; index is the
\* position enumerate() counts, from 0
RECURSIVE ScanTable(_, _, _)
ScanTable(table, index, acc) ==
    IF index = Len(table) THEN acc
    ELSE ScanTable(table, index + 1,
            IF table[index + 1].valid = 1
            THEN LET baseLZA == table[index + 1].lza
                     was == {i \in DOMAIN acc._descriptors :
                                acc._descriptors[i].baseLZA = baseLZA}
                 IN  IF was = {}
                     THEN [acc EXCEPT !._descriptors =
                              Append(@, _LZAinuse(baseLZA, index, 0, 0, 0))]
                     ELSE [acc EXCEPT
                              !._descriptors[CHOOSE i \in was : TRUE] =
                                  _LZAinuse(baseLZA, index, 0, 0, 0)]
            ELSE [acc EXCEPT !._available = Append(@, index)])

\* DescMgmt.__init__ with shadow apertures enabled, on the table hw
DescMgmt__init__(indices, hw) ==
    LET scan == ScanTable(descTable(indices, hw), 0,
                          [_available |-> <<>>, _descriptors |-> <<>>])
    IN  [_indices |-> indices, _available |-> scan._available,
         _descriptors |-> scan._descriptors, hw |-> hw]

_consistent(self) ==
    Len(self._available) + Len(self._descriptors) = Len(self._indices)

\* desbk_set: "ok" and the table after the ioctl, or what was raised
desbk_set(self, index, baseLZA, ioctl_ok) ==
    IF ~(0 <= baseLZA /\ baseLZA < 1048576)
    THEN [raised |-> "AssertionError", hw |-> self.hw]
    ELSE IF index \notin Range(self._indices)
    THEN [raised |-> "AssertionError", hw |-> self.hw]
    ELSE IF ~ioctl_ok THEN [raised |-> "OSError", hw |-> self.hw]
    ELSE [raised |-> "",
          hw |-> [self.hw EXCEPT ![index] = [valid |-> 1, lza |-> baseLZA]]]

Find(descriptors, baseLZA) ==
    {i \in DOMAIN descriptors : descriptors[i].baseLZA = baseLZA}

\* slip: the victim's entry gives way to the new one at once
evict_now(self, baseLZA, pid, userVA, now) ==
    LET evictLZA == min(self._descriptors)
        newLZA == _LZAinuse(baseLZA, evictLZA.index, pid, userVA, now)
        i == CHOOSE i \in DOMAIN self._descriptors :
                self._descriptors[i] = evictLZA
    IN  [self |-> [self EXCEPT !._descriptors[i] = newLZA],
         ret |-> [kind |-> "Eviction", evictLZA |-> evictLZA,
                  newLZA |-> newLZA]]

\* the end of DescMgmt.assign, no index being available: the oldest entry
\* and the one to take its index are returned, the table is left alone
evict(self, baseLZA, pid, userVA, now) ==
    LET evictLZA == min(self._descriptors)
    IN  [self |-> self,
         ret |-> [kind |-> "Eviction", evictLZA |-> evictLZA,
                  newLZA |-> _LZAinuse(baseLZA, evictLZA.index, pid, userVA,
                                       now)]]

\* assign, were a bound index left in _available
assign_nopop(self, baseLZA, pid, userVA, now, ioctl_ok) ==
    LET hit == Find(self._descriptors, baseLZA)
    IN  IF ~(0 <= baseLZA /\ baseLZA < 1048576) \/ ~_consistent(self)
        THEN [self |-> self, ret |-> [kind |-> "AssertionError"]]
        ELSE IF hit # {}
        THEN LET i == CHOOSE i \in hit : TRUE
             IN  [self |-> [self EXCEPT !._descriptors[i] =
                               update(@, pid, userVA, now)],
                  ret |-> [kind |-> "None"]]
        ELSE IF self._available # <<>>
        THEN LET index == self._available[1]
                 newLZA == _LZAinuse(baseLZA, index, pid, userVA, now)
                 set == desbk_set(self, index, baseLZA, ioctl_ok)
             IN  IF set.raised # ""
                 THEN [self |-> self, ret |-> [kind |-> "None"]]
                 ELSE [self |-> [self EXCEPT
                                   !.hw = set.hw,
                                   !._descriptors = Append(@, newLZA)],
                       ret |-> [kind |-> "None"]]
        ELSE evict(self, baseLZA, pid, userVA, now)

\* DescMgmt.assign at time now: the manager afterwards and what the call
\* returned or raised
assign(self, baseLZA, pid, userVA, now, ioctl_ok) ==
    LET hit == Find(self._descriptors, baseLZA)
    IN  IF ~(0 <= baseLZA /\ baseLZA < 1048576) \/ ~_consistent(self)
        THEN [self |-> self, ret |-> [kind |-> "AssertionError"]]
        ELSE IF hit # {}
        THEN LET i == CHOOSE i \in hit : TRUE
             IN  [self |-> [self EXCEPT !._descriptors[i] =
                               update(@, pid, userVA, now)],
                  ret |-> [kind |-> "None"]]
        ELSE IF self._available # <<>>
        THEN LET index == self._available[1]
                 newLZA == _LZAinuse(baseLZA, index, pid, userVA, now)
                 set == desbk_set(self, index, baseLZA, ioctl_ok)
             IN  IF set.raised # ""
                 THEN [self |-> self, ret |-> [kind |-> "None"]]
                 ELSE [self |-> [self EXCEPT
                                   !.hw = set.hw,
                                   !._descriptors = Append(@, newLZA),
                                   !._available = Tail(@)],
                       ret |-> [kind |-> "None"]]
        ELSE evict(self, baseLZA, pid, userVA, now)

\* the manager, the clock (time.time() in seconds) and the last return
DescInit ==
    /\ db = None
    /\ reply = None
    /\ pol = None
    /\ shadow = None
    /\ \E indices \in IndexTuples : \E hw \in DescTables(indices) :
         dm = [self |-> DescMgmt__init__(indices, hw), now |-> 1,
               ret |-> [kind |-> "init"]]

\* room for one more userVA in the entry of baseLZA
Room(baseLZA) ==
    \A i \in Find(dm.self._descriptors, baseLZA) :
        mappings(dm.self._descriptors[i]) < MaxMappings

Assign ==
    \E baseLZA \in DescLZAs, pid \in DescPids, userVA \in DescUserVAs,
       ioctl_ok \in BOOLEAN :
        /\ Room(baseLZA)
        /\ LET a == assign(dm.self, baseLZA, pid, userVA, dm.now, ioctl_ok)
           IN  dm' = [dm EXCEPT !.self = a.self, !.ret = a.ret]
        /\ UNCHANGED <<db, reply, pol, shadow>>

\* a second passes
Tick ==
    /\ dm.now < MaxTime
    /\ dm' = [dm EXCEPT !.now = @ + 1]
    /\ UNCHANGED <<db, reply, pol, shadow>>

DescNext ==
    \/ Assign
    \/ Tick

DescSpec == DescInit /\ [][DescNext]_vars

\* ------------------------------------------ the shadow layer: translation
\* lfs_globals['books_per_IG'] maps the decimal numeral of an interleave
\* group to its number of books; the model keeps the group's number as the
\* key and takes its numeral where the code sorts the keys.
Numeral(ig) == IF ig < 10 THEN <<ig>> ELSE <<ig \div 10, ig % 10>>

\* s < t for two strings of digits, as Python compares strings
StrLess(s, t) ==
    LET differ == {i \in 1 .. Min(Len(s), Len(t)) : s[i] # t[i]}
    IN  IF differ = {} THEN Len(s) < Len(t)
        ELSE LET i == CHOOSE i \in differ : \A j \in differ : i <= j
             IN  s[i] < t[i]

\* sorted(lfs_globals['books_per_IG'].keys())
RECURSIVE sorted(_)
sorted(keys) ==
    IF keys = {} THEN <<>>
    ELSE LET first == CHOOSE k \in keys :
                         \A o \in keys \ {k} :
                             StrLess(Numeral(k), Numeral(o))
         IN  <<first>> \o sorted(keys \ {first})

\* the loop of shadow_support.__init__ over the sorted keys: _igstart so far
RECURSIVE IgStarts(_, _, _, _)
IgStarts(lfs_globals, igstrs, offset, _igstart) ==
    IF igstrs = <<>> THEN _igstart
    ELSE LET ig == Head(igstrs)
         IN  IgStarts(lfs_globals, Tail(igstrs),
                      offset + (lfs_globals.books_per_IG[ig]
                                * lfs_globals.book_size_bytes),
                      _igstart @@ (ig :> offset))

\* int(math.log(book_size, 2)) for the book sizes at hand
RECURSIVE Log2(_)
Log2(n) == IF n < 2 THEN 0 ELSE 1 + Log2(n \div 2)

\* shadow_support.__init__
shadow_support__init__(lfs_globals) ==
    [book_size |-> lfs_globals.book_size_bytes,
     _shelfcache |-> <<>>,
     _igstart |-> IgStarts(lfs_globals,
                           sorted(DOMAIN lfs_globals.books_per_IG), 0, <<>>),
     book_shift |-> Log2(lfs_globals.book_size_bytes)]

\* slip: the book's place within its group is left out
shadow_offset_nobook(self, shelf_name, shelf_offset) ==
    LET bos == self._shelfcache[shelf_name].bos
        bos_index == shelf_offset \div self.book_size
    IN  IF bos_index >= Len(bos) \/ bos_index < 0 - Len(bos) THEN 0 - 1
        ELSE LET book == bos[(bos_index % Len(bos)) + 1]
                 book_offset == shelf_offset % self.book_size
             IN  self._igstart[book.intlv_group] + book_offset

\* slip: the offset one past the last book is taken for one of the last
shadow_offset_pastend(self, shelf_name, shelf_offset) ==
    LET bos == self._shelfcache[shelf_name].bos
        bos_index == shelf_offset \div self.book_size
    IN  IF bos_index > Len(bos) \/ bos = <<>> THEN 0 - 1
        ELSE LET book == bos[IF bos_index = Len(bos) THEN Len(bos)
                             ELSE bos_index + 1]
                 book_start == book.book_num * self.book_size
                 book_offset == shelf_offset % self.book_size
             IN  self._igstart[book.intlv_group] + book_start + book_offset

\* shadow_support.shadow_offset; bos[bos_index] counts from 0, and from the
\* end when bos_index is negative
shadow_offset(self, shelf_name, shelf_offset) ==
    LET bos == self._shelfcache[shelf_name].bos
        bos_index == shelf_offset \div self.book_size
    IN  IF bos_index >= Len(bos) \/ bos_index < 0 - Len(bos) THEN 0 - 1
        ELSE LET book == bos[(bos_index % Len(bos)) + 1]
                 book_start == book.book_num * self.book_size
                 book_offset == shelf_offset % self.book_size
             IN  self._igstart[book.intlv_group] + book_start + book_offset

\* --- the globals and the open shelves the translation is tried on
\* books_per_IG of the Librarian's globals: two groups of up to MaxPerIG
\* books, or ManyIGs groups of one book
GlobalsAtHand ==
    {[book_size_bytes |-> book_size_bytes, books_per_IG |-> n] :
        n \in [{0, 1} -> 1 .. MaxPerIG] \cup {[ig \in 0 .. (ManyIGs - 1) |-> 1]}}

RECURSIVE SumBooks(_, _)
SumBooks(books_per_IG, S) ==
    IF S = {} THEN 0
    ELSE LET ig == CHOOSE x \in S : TRUE
         IN  books_per_IG[ig] + SumBooks(books_per_IG, S \ {ig})

\* nvm_bytes_total of the globals: all books of all groups
nvm_bytes_total(lfs_globals) ==
    SumBooks(lfs_globals.books_per_IG, DOMAIN lfs_globals.books_per_IG)
    * lfs_globals.book_size_bytes

\* the books of the globals
BooksOf(lfs_globals) ==
    {b \in [intlv_group : DOMAIN lfs_globals.books_per_IG,
            book_num : 0 .. (MaxPerIG - 1)] :
        b.book_num < lfs_globals.books_per_IG[b.intlv_group]}

\* lists of up to n distinct books of B
BosLists(B, n) ==
    UNION {{q \in [1 .. k -> B] : \A i, j \in 1 .. k : q[i] = q[j] => i = j} :
              k \in 0 .. n}

\* the caches open() leaves behind for the shelves of names: every shelf
\* under its name with the books the Librarian bound to it, its last book
\* short by one of the byte counts of shorts, and no book on two shelves
CachesOf(lfs_globals, names, shorts) ==
    {[name \in names |->
         [name |-> name, bos |-> bos[name],
          size_bytes |-> IF bos[name] = <<>> THEN 0
                         ELSE (Len(bos[name]) * lfs_globals.book_size_bytes)
                              - short[name]]] :
        bos \in {b \in [names -> BosLists(BooksOf(lfs_globals), MaxBos)] :
                    \A m, n \in names :
                        m # n => Range(b[m]) \cap Range(b[n]) = {}},
        short \in [names -> shorts]}

\* the shadow object with the shelf of TranslatorNames open, and what the
\* last shadow_offset was asked and returned
TranslatorNames == {"a"}

TranslatorInit ==
    /\ db = None
    /\ reply = None
    /\ pol = None
    /\ dm = None
    /\ \E lfs_globals \in GlobalsAtHand :
       \E cache \in CachesOf(lfs_globals, TranslatorNames, {0, 1}) :
         shadow = [self |-> [shadow_support__init__(lfs_globals)
                               EXCEPT !._shelfcache = cache],
                   lfs_globals |-> lfs_globals,
                   call |-> None, ret |-> 0]

\* the offsets asked for: all of a shelf of MaxBos books and some beyond
Offsets == 0 .. ((MaxBos + 1) * book_size_bytes)

ShadowOffset ==
    \E shelf_name \in TranslatorNames, shelf_offset \in Offsets :
        /\ shadow' = [shadow EXCEPT
                         !.call = [shelf_name |-> shelf_name,
                                   shelf_offset |-> shelf_offset],
                         !.ret = shadow_offset(shadow.self, shelf_name,
                                               shelf_offset)]
        /\ UNCHANGED <<db, reply, pol, dm>>

TranslatorNext == ShadowOffset

TranslatorSpec == TranslatorInit /\ [][TranslatorNext]_vars

\* ------------------------------------------- the shadow layer: flat file
\* The flat file is the sequence of its bytes; position p of the file is
\* element p + 1. A transfer leaves behind what was raised ("" when it
\* returned), what it returned, the file, and the chunks it went through:
\* for each the shelf offset, the translated offset and the length.
Bytes == {0, 1}

Longer(a, b) == IF a > b THEN a ELSE b

\* os.lseek(fd, pos, os.SEEK_SET); os.read(fd, length)
os_read(file, pos, length) ==
    [i \in 1 .. Longer(0, Min(length, Len(file) - pos)) |-> file[pos + i]]

\* os.lseek(fd, pos, os.SEEK_SET); os.write(fd, buf): past its end the
\* file grows, with zeros in the gap
os_write(file, pos, buf) ==
    [i \in 1 .. Longer(Len(file), pos + Len(buf)) |->
        IF pos < i /\ i <= pos + Len(buf) THEN buf[i - pos]
        ELSE IF i <= Len(file) THEN file[i] ELSE 0]

\* slip: what is left is read in one piece
ReadChunks_whole(self, file, shelf_name, cur_offset, tot_length, buf, chunks) ==
    LET so == shadow_offset(self, shelf_name, cur_offset)
    IN  IF so = 0 - 1
        THEN [raised |-> "", ret |-> buf, file |-> file, chunks |-> chunks]
        ELSE [raised |-> "", ret |-> buf \o os_read(file, so, tot_length),
              file |-> file,
              chunks |-> Append(chunks, [shelf_offset |-> cur_offset,
                                         shadow_offset |-> so,
                                         length |-> tot_length])]

\* the while loop of shadow_file.read
RECURSIVE ReadChunks(_, _, _, _, _, _, _)
ReadChunks(self, file, shelf_name, cur_offset, tot_length, buf, chunks) ==
    IF tot_length <= 0
    THEN [raised |-> "", ret |-> buf, file |-> file, chunks |-> chunks]
    ELSE LET cur_length == Min(self.book_size
                                - (cur_offset % self.book_size), tot_length)
             so == shadow_offset(self, shelf_name, cur_offset)
         IN  IF so = 0 - 1
             THEN [raised |-> "", ret |-> buf, file |-> file,
                   chunks |-> chunks]
             ELSE ReadChunks(self, file, shelf_name,
                             cur_offset + cur_length,
                             tot_length - cur_length,
                             buf \o os_read(file, so, cur_length),
                             Append(chunks,
                                    [shelf_offset |-> cur_offset,
                                     shadow_offset |-> so,
                                     length |-> cur_length]))

\* shadow_file.read; lseek to a negative offset raises OSError
shadow_file_read(self, file, shelf_name, length, offset) ==
    IF (offset % self.book_size) + length <= self.book_size
    THEN LET so == shadow_offset(self, shelf_name, offset)
         IN  IF so < 0
             THEN [raised |-> "OSError", ret |-> <<>>, file |-> file,
                   chunks |-> <<>>]
             ELSE [raised |-> "", ret |-> os_read(file, so, length),
                   file |-> file,
                   chunks |-> <<[shelf_offset |-> offset,
                                 shadow_offset |-> so, length |-> length]>>]
    ELSE ReadChunks(self, file, shelf_name, offset, length, <<>>, <<>>)

\* slip: a chunk is written where the transfer began
RECURSIVE WriteChunks_first(_, _, _, _, _, _, _, _)
WriteChunks_first(self, file, shelf_name, buf, buf_offset, cur_offset, wsize, chunks) ==
    IF Len(buf) - buf_offset <= 0
    THEN [raised |-> "", ret |-> wsize, file |-> file, chunks |-> chunks]
    ELSE LET tot_length == Len(buf) - buf_offset
             cur_length == Min(self.book_size
                                - (cur_offset % self.book_size), tot_length)
             so == shadow_offset(self, shelf_name, cur_offset - buf_offset)
             tbuf == SubSeq(buf, buf_offset + 1, buf_offset + cur_length)
         IN  IF so = 0 - 1
             THEN [raised |-> "AssertionError", ret |-> wsize, file |-> file,
                   chunks |-> chunks]
             ELSE WriteChunks_first(self, os_write(file, so, tbuf),
                             shelf_name, buf, buf_offset + cur_length,
                             cur_offset + cur_length, wsize + Len(tbuf),
                             Append(chunks,
                                    [shelf_offset |-> cur_offset,
                                     shadow_offset |-> so,
                                     length |-> cur_length]))

\* the while loop of shadow_file.write; tot_length is what is left of buf
RECURSIVE WriteChunks(_, _, _, _, _, _, _, _)
WriteChunks(self, file, shelf_name, buf, buf_offset, cur_offset, wsize, chunks) ==
    IF Len(buf) - buf_offset <= 0
    THEN [raised |-> "", ret |-> wsize, file |-> file, chunks |-> chunks]
    ELSE LET tot_length == Len(buf) - buf_offset
             cur_length == Min(self.book_size
                                - (cur_offset % self.book_size), tot_length)
             so == shadow_offset(self, shelf_name, cur_offset)
             tbuf == SubSeq(buf, buf_offset + 1, buf_offset + cur_length)
         IN  IF so = 0 - 1
             THEN [raised |-> "AssertionError", ret |-> wsize, file |-> file,
                   chunks |-> chunks]
             ELSE WriteChunks(self, os_write(file, so, tbuf), shelf_name,
                              buf, buf_offset + cur_length,
                              cur_offset + cur_length, wsize + Len(tbuf),
                              Append(chunks,
                                     [shelf_offset |-> cur_offset,
                                      shadow_offset |-> so,
                                      length |-> cur_length]))

\* shadow_file.write
shadow_file_write(self, file, shelf_name, buf, offset) ==
    IF (offset % self.book_size) + Len(buf) <= self.book_size
    THEN LET so == shadow_offset(self, shelf_name, offset)
         IN  IF so < 0
             THEN [raised |-> "OSError", ret |-> 0, file |-> file,
                   chunks |-> <<>>]
             ELSE [raised |-> "", ret |-> Len(buf),
                   file |-> os_write(file, so, buf),
                   chunks |-> <<[shelf_offset |-> offset,
                                 shadow_offset |-> so,
                                 length |-> Len(buf)]>>]
    ELSE WriteChunks(self, file, shelf_name, buf, 0, offset, 0, <<>>)

\* --- a flat file of three books under two shelves
FileGlobals ==
    [book_size_bytes |-> book_size_bytes, books_per_IG |-> (0 :> 2 @@ 1 :> 1)]

FileNames == {"a", "b"}

\* shadow_file.__init__ on a new file, and the shelves opened
FileInit ==
    /\ db = None
    /\ reply = None
    /\ pol = None
    /\ dm = None
    /\ \E cache \in CachesOf(FileGlobals, FileNames, {0}) :
         shadow = [self |-> [shadow_support__init__(FileGlobals)
                               EXCEPT !._shelfcache = cache],
                   lfs_globals |-> FileGlobals,
                   file |-> [i \in 1 .. nvm_bytes_total(FileGlobals) |-> 0],
                   op |-> "none", raised |-> "", ret |-> None]

\* the byte strings of up to MaxLen bytes, and those written: of every
\* length the two that alternate
Bufs == UNION {[1 .. n -> Bytes] : n \in 1 .. MaxLen}

Written == {[i \in 1 .. n |-> (i + k) % 2] : n \in 1 .. MaxLen, k \in Bytes}

FileOffsets == 0 .. (MaxBos * book_size_bytes)

Read ==
    \E shelf_name \in FileNames, length \in 1 .. MaxLen,
       offset \in FileOffsets :
        LET r == shadow_file_read(shadow.self, shadow.file, shelf_name,
                                  length, offset)
        IN  /\ shadow' = [shadow EXCEPT !.op = "read", !.raised = r.raised,
                                        !.ret = r.ret]
            /\ UNCHANGED <<db, reply, pol, dm>>

Write ==
    \E shelf_name \in FileNames, buf \in Written, offset \in FileOffsets :
        LET w == shadow_file_write(shadow.self, shadow.file, shelf_name,
                                   buf, offset)
        IN  /\ shadow' = [shadow EXCEPT !.op = "write", !.raised = w.raised,
                                        !.ret = w.ret, !.file = w.file]
            /\ UNCHANGED <<db, reply, pol, dm>>

FileNext ==
    \/ Read
    \/ Write

FileSpec == FileInit /\ [][FileNext]_vars

\* ------------------------------------------ the shadow layer: shelf cache
\* _shelfcache is one dict keyed by shelf names and by handles; it is kept
\* here as the keys of either kind (0: no such key) over the objects they
\* refer to, so that two keys of one object are told from two keys of equal
\* objects. An object is a shelf record whose open_handle maps pids to the
\* lists of their handles.
CacheNames   == {"a", "b", ".tmfs_hidden1"}
CacheIds     == {1}
CacheHandles == {1, 2, 3}
CachePids    == {1, 2}
Refs         == 1 .. (Cardinality(CacheNames) + Cardinality(CacheHandles))

\* the books and sizes the Librarian may report for a shelf: up to MaxBos
\* of the books 1 and 2 in any order, the last one full or short of a byte
ShelfVersions ==
    UNION {{[bos |-> q, size_bytes |-> s] :
               s \in {x \in {Len(q) * book_size_bytes,
                             (Len(q) * book_size_bytes) - 1} : x >= 0}} :
           q \in BosLists({1, 2}, MaxBos)}

EmptyCache ==
    [byname |-> [n \in CacheNames |-> 0],
     byfh   |-> [h \in CacheHandles |-> 0],
     heap   |-> [r \in Refs |-> None]]

\* objects no key refers to are gone
Collect(self) ==
    [self EXCEPT !.heap =
        [r \in Refs |->
            IF \/ \E n \in CacheNames : self.byname[n] = r
               \/ \E h \in CacheHandles : self.byfh[h] = r
            THEN self.heap[r] ELSE None]]

\* a place for a new object
NewRef(self) ==
    CHOOSE r \in Refs :
        /\ self.heap[r] = None
        /\ \A o \in Refs : (o < r) => self.heap[o] # None

\* for vlist in open_handle.values(): all_fh += vlist
RECURSIVE all_fh(_, _)
all_fh(open_handle, pids) ==
    IF pids = {} THEN {}
    ELSE LET pid == CHOOSE p \in pids : TRUE
         IN  Range(open_handle[pid]) \cup all_fh(open_handle, pids \ {pid})

\* cached != shelf (TMShelf.__eq__): the fields of the record, the handles
\* left aside
Differs(cached, shelf) ==
    \/ cached.id # shelf.id
    \/ cached.name # shelf.name
    \/ cached.size_bytes # shelf.size_bytes
    \/ cached.bos # shelf.bos

\* slip: the books are taken for the same without a look
FirstBooks_unseen(cached, shelf, i) == "same"

\* for i, book in enumerate(cached.bos): if book != shelf.bos[i]: break
\* "same", "changed" on the break, "IndexError" past the end of shelf.bos
RECURSIVE FirstBooks(_, _, _)
FirstBooks(cached, shelf, i) ==
    IF i > Len(cached.bos) THEN "same"
    ELSE IF i > Len(shelf.bos) THEN "IndexError"
    ELSE IF cached.bos[i] # shelf.bos[i] THEN "changed"
    ELSE FirstBooks(cached, shelf, i + 1)

\* what a cache operation leaves behind: the cache, what it raised ("" when
\* it returned), whether it asked for the PTEs to be invalidated
Left(self, raised, invalidate) ==
    [self |-> Collect(self), raised |-> raised, invalidate |-> invalidate]

\* shadow_support.__setitem__ for the process pid
__setitem__(self, fh, shelf, pid) ==
    LET ref == self.byname[shelf.name]
        cached == self.heap[ref]
    IN  IF ref = 0
        THEN LET r == NewRef(self)
             IN  Left([self EXCEPT
                          !.heap[r] = [id |-> shelf.id, name |-> shelf.name,
                                       size_bytes |-> shelf.size_bytes,
                                       bos |-> shelf.bos,
                                       open_handle |-> (pid :> <<fh>>)],
                          !.byname[shelf.name] = r,
                          !.byfh[fh] = r], "", FALSE)
        ELSE IF Differs(cached, shelf)
        THEN LET grew == shelf.size_bytes > cached.size_bytes
                 first == IF grew THEN FirstBooks(cached, shelf, 1)
                          ELSE "changed"
                 listed == all_fh(cached.open_handle,
                                  DOMAIN cached.open_handle)
                 r == NewRef(self)
             IN  IF cached.id # shelf.id
                 THEN Left(self, "AssertionError", FALSE)
                 ELSE IF first = "IndexError"
                 THEN Left(self, "IndexError", FALSE)
                 ELSE Left([self EXCEPT
                               !.heap[r] =
                                   [id |-> shelf.id, name |-> shelf.name,
                                    size_bytes |-> shelf.size_bytes,
                                    bos |-> shelf.bos,
                                    open_handle |-> cached.open_handle],
                               !.byfh = [h \in CacheHandles |->
                                            IF h \in listed THEN r ELSE @[h]],
                               !.byname[shelf.name] = r],
                           "", first # "same")
        ELSE IF fh \in all_fh(cached.open_handle, DOMAIN cached.open_handle)
        THEN Left(self, "AssertionError", FALSE)
        ELSE Left([self EXCEPT
                      !.byfh[fh] = ref,
                      !.heap[ref].open_handle =
                          IF pid \in DOMAIN @
                          THEN [@ EXCEPT ![pid] = Append(@, fh)]
                          ELSE @ @@ (pid :> <<fh>>)], "", FALSE)

\* fhlist.remove(key)
RECURSIVE remove(_, _)
remove(fhlist, key) ==
    IF fhlist = <<>> THEN <<>>
    ELSE IF Head(fhlist) = key THEN Tail(fhlist)
    ELSE <<Head(fhlist)>> \o remove(Tail(fhlist), key)

\* for fh in all_fh: del self._shelfcache[fh], the smaller handle first
RECURSIVE DelHandles(_, _)
DelHandles(self, fhs) ==
    IF fhs = {} THEN Left(self, "", FALSE)
    ELSE LET fh == CHOOSE h \in fhs : \A o \in fhs : h <= o
         IN  IF self.byfh[fh] = 0 THEN Left(self, "KeyError", FALSE)
             ELSE DelHandles([self EXCEPT !.byfh[fh] = 0], fhs \ {fh})

\* shadow_support.__delitem__; is_fh: the key is a handle, not a name
__delitem__(self, key, is_fh) ==
    IF is_fh
    THEN LET ref == self.byfh[key]
             cached == self.heap[ref]
             open_handles == cached.open_handle
             pids == {p \in DOMAIN open_handles :
                         key \in Range(open_handles[p])}
             pid == CHOOSE p \in pids : \A o \in pids : p <= o
             fhlist == remove(open_handles[pid], key)
             left == IF fhlist = <<>>
                     THEN [p \in DOMAIN open_handles \ {pid} |->
                              open_handles[p]]
                     ELSE [open_handles EXCEPT ![pid] = fhlist]
             gone == [self EXCEPT !.byfh[key] = 0]
             less == [gone EXCEPT !.heap[ref].open_handle = left]
         IN  IF ref = 0 THEN Left(self, "AssertionError", FALSE)
             ELSE IF pids = {} THEN Left(gone, "AssertionError", FALSE)
             ELSE IF DOMAIN left # {} THEN Left(less, "", FALSE)
             ELSE IF self.byname[cached.name] = 0
             THEN Left(less, "KeyError", FALSE)
             ELSE Left([less EXCEPT !.byname[cached.name] = 0], "", FALSE)
    ELSE LET ref == self.byname[key]
             cached == self.heap[ref]
         IN  IF ref = 0 THEN Left(self, "", FALSE)
             ELSE DelHandles([self EXCEPT !.byname[key] = 0],
                             all_fh(cached.open_handle,
                                    DOMAIN cached.open_handle))

\* shadow_support.unlink
unlink(self, shelf_name) == __delitem__(self, shelf_name, FALSE)

\* shadow_support.release; self[fh] of a missing key is None, which has no
\* open_handle to set
release(self, fh) ==
    IF self.byfh[fh] = 0 THEN Left(self, "AttributeError", FALSE)
    ELSE __delitem__(self, fh, TRUE)

HiddenNames == {".tmfs_hidden1"}

\* shadow_support.rename
rename(self, old, new) ==
    LET ref == self.byname[old]
    IN  IF ref = 0
        THEN Left(self, IF new \in HiddenNames THEN "TmfsOSError" ELSE "",
                  FALSE)
        ELSE Left([self EXCEPT !.heap[ref].name = new,
                               !.byname = [@ EXCEPT ![old] = 0,
                                                    ![new] = ref]],
                  "", FALSE)

\* --- the cache under the opens of two processes
\* lib: the names of the Librarian's shelves ("": no such shelf); live: for
\* each handle the shelf and the process of its open, zeros when it is not
\* open; op, raised, invalidate: the last operation and how it ended
NotOpen == [id |-> 0, pid |-> 0]

CacheInit ==
    /\ db = None
    /\ reply = None
    /\ pol = None
    /\ dm = None
    /\ shadow = [self |-> EmptyCache,
                 lib |-> [id \in CacheIds |-> ""],
                 live |-> [h \in CacheHandles |-> NotOpen],
                 op |-> "none", raised |-> "", invalidate |-> FALSE]

\* the handles of the opens of a shelf that were not released
LiveOn(id) == {h \in CacheHandles : shadow.live[h].id = id}

Done(op, r, lib, live) ==
    /\ shadow' = [self |-> r.self, lib |-> lib, live |-> live, op |-> op,
                  raised |-> r.raised, invalidate |-> r.invalidate]
    /\ UNCHANGED <<db, reply, pol, dm>>

\* shadow_file.create: a new shelf, without books, is opened
Create ==
    \E id \in CacheIds, name \in CacheNames \ HiddenNames,
       fh \in CacheHandles, pid \in CachePids :
        /\ shadow.lib[id] = ""
        /\ \A o \in CacheIds : shadow.lib[o] # name
        /\ shadow.live[fh] = NotOpen
        /\ LET shelf == [id |-> id, name |-> name, size_bytes |-> 0,
                         bos |-> <<>>]
               r == __setitem__(shadow.self, fh, shelf, pid)
           IN  Done("create", r, [shadow.lib EXCEPT ![id] = name],
                    IF r.raised = ""
                    THEN [shadow.live EXCEPT ![fh] = [id |-> id, pid |-> pid]]
                    ELSE shadow.live)

\* shadow_file.open with the record the Librarian returned
Open ==
    \E id \in CacheIds, fh \in CacheHandles, pid \in CachePids,
       v \in ShelfVersions :
        /\ shadow.lib[id] # ""
        /\ shadow.live[fh] = NotOpen
        /\ LET shelf == [id |-> id, name |-> shadow.lib[id],
                         size_bytes |-> v.size_bytes, bos |-> v.bos]
               r == __setitem__(shadow.self, fh, shelf, pid)
           IN  Done("open", r, shadow.lib,
                    IF r.raised = ""
                    THEN [shadow.live EXCEPT ![fh] = [id |-> id, pid |-> pid]]
                    ELSE shadow.live)

Release ==
    \E fh \in CacheHandles :
        /\ shadow.live[fh] # NotOpen
        /\ Done("release", release(shadow.self, fh), shadow.lib,
                [shadow.live EXCEPT ![fh] = NotOpen])

\* unlink reaches the shadow layer for a shelf without opens; with opens
\* the kernel renames the shelf to a hidden name
Unlink ==
    \E id \in CacheIds :
        /\ shadow.lib[id] # ""
        /\ LiveOn(id) = {}
        /\ Done("unlink", unlink(shadow.self, shadow.lib[id]),
                [shadow.lib EXCEPT ![id] = ""], shadow.live)

Rename ==
    \E id \in CacheIds, new \in CacheNames :
        /\ shadow.lib[id] # ""
        /\ \A o \in CacheIds : shadow.lib[o] # new
        /\ Done("rename", rename(shadow.self, shadow.lib[id], new),
                [shadow.lib EXCEPT ![id] = new], shadow.live)

CacheNext ==
    \/ Create
    \/ Open
    \/ Release
    \/ Unlink
    \/ Rename

CacheSpec == CacheInit /\ [][CacheNext]_vars

\* ------------------------------------------------------------ properties
Images == {Tables(db), db.disk}

Ceil(a, b) == (a + b - 1) \div b

ShelfCmd(command, name) ==
    [command |-> command, name |-> name, id |-> 0, context |-> AnyContext]

BooksOnShelf(d, shelf_id) == {r.book_id : r \in BosRows(d, shelf_id)}

\* C1: every shelf of the store, in the rows at hand and in the committed
\* image, has ceil(size_bytes / book_size) = book_count, whatever commands
\* ran and however they ended.
SizeCountLaw ==
    \A t \in Images : \A i \in DOMAIN t.shelves :
        /\ (t.shelves[i].book_count - 1) * book_size_bytes
               < t.shelves[i].size_bytes
        /\ t.shelves[i].size_bytes
               <= t.shelves[i].book_count * book_size_bytes

\* a resize has left a shelf whose last book is partly used
SizeCountWitness ==
    /\ reply.command = "resize_shelf" /\ reply.errmsg = ""
    /\ \E i \in DOMAIN db.shelves :
          /\ db.shelves[i].book_count >= 1
          /\ db.shelves[i].size_bytes % book_size_bytes # 0

\* C2: for every shelf the seq_num values of its BOS rows are exactly
\* 1..book_count and it has book_count BOS rows.
BosDensityLaw ==
    \A i \in DOMAIN db.shelves :
        /\ {r.seq_num : r \in BosRows(db, i)} = 1 .. db.shelves[i].book_count
        /\ Cardinality(BosRows(db, i)) = db.shelves[i].book_count

\* a resize has left a shelf with two BOS rows
BosDensityWitness ==
    /\ reply.command = "resize_shelf" /\ reply.errmsg = ""
    /\ \E i \in DOMAIN db.shelves :
          /\ db.shelves[i].book_count = 2
          /\ Cardinality(BosRows(db, i)) = 2

\* C3: no book_id is in two BOS rows, on two shelves or twice on one.
NoDoubleBinding ==
    \A r1, r2 \in db.bos : r1.book_id = r2.book_id => r1 = r2

\* two shelves hold books, bound by commands of two nodes
NoDoubleBindingWitness ==
    \E r1, r2 \in db.bos :
        /\ r1.shelf_id # r2.shelf_id
        /\ db.books[r1.book_id].node_id # db.books[r2.book_id].node_id

LegalStep(old, new) ==
    <<old, new>> \in {<<ALLOC_FREE, ALLOC_INUSE>>,
                      <<ALLOC_INUSE, ALLOC_ZOMBIE>>,
                      <<ALLOC_ZOMBIE, ALLOC_FREE>>}

\* C4: books start FREE; a command changes a book's state only by
\* FREE -> IN_USE, IN_USE -> ZOMBIE or ZOMBIE -> FREE; in every reachable
\* state a request for any other transition of any book fails with EUCLEAN
\* and leaves the store as it was.
AllocationMonotone ==
    /\ \A b \in BookIds : db.books[b].allocated = ALLOC_FREE
    /\ [][\A b \in BookIds :
             db'.books[b].allocated # db.books[b].allocated
                => LegalStep(db.books[b].allocated, db'.books[b].allocated)]_vars
    /\ [](\A b \in BookIds :
          \A newalloc \in {ALLOC_FREE, ALLOC_INUSE, ALLOC_ZOMBIE} :
             ~LegalStep(db.books[b].allocated, newalloc)
                => /\ _set_book_alloc(db, b, newalloc).errmsg # ""
                   /\ _set_book_alloc(db, b, newalloc).errno = EUCLEAN
                   /\ _set_book_alloc(db, b, newalloc).db = db)

\* a log_zero was refused with EUCLEAN while books were in all three states
\* or on their way round
AllocationMonotoneWitness ==
    /\ reply.command = "log_zero" /\ reply.errno = EUCLEAN
    /\ \E b \in BookIds : db.books[b].allocated = ALLOC_INUSE

\* C5 (as claimed): a command that is answered with an error leaves the
\* store, rows at hand and committed image, as it was before the command.
ErrorLeavesStore == [][reply'.errmsg # "" => db' = db]_vars

\* C6: a resize that needs more books than the caller's node has FREE fails
\* with ENOSPC and leaves the store as it was.
ResizeNoSpace ==
    \A name \in Names, id \in ShelfIds, size_bytes \in Sizes,
       context \in Contexts :
        LET cmdict == [command |-> "resize_shelf", name |-> name, id |-> id,
                       size_bytes |-> size_bytes, context |-> context]
            shelf == db_get_shelf(db, name, id, TRUE)
        IN  (/\ shelf # None
             /\ Ceil(size_bytes, book_size_bytes) - shelf.book_count
                  > Cardinality(BooksByNode(db, context.node_id, ALLOC_FREE)))
            => \A freebooks \in FreeLists(cmdict) :
                  /\ cmd_resize_shelf(db, cmdict, freebooks).errmsg # ""
                  /\ cmd_resize_shelf(db, cmdict, freebooks).errno = ENOSPC
                  /\ cmd_resize_shelf(db, cmdict, freebooks).db = db

\* a resize was answered ENOSPC although every node had a FREE book
ResizeNoSpaceWitness ==
    /\ reply.command = "resize_shelf" /\ reply.errno = ENOSPC
    /\ \A n \in Nodes : BooksByNode(db, n, ALLOC_FREE) # {}

\* C7 (as claimed): destroy_shelf of a shelf with open handles fails with
\* EBUSY and changes nothing.
DestroyBusy ==
    /\ \A name \in Names :
          LET shelf == db_get_shelf(db, name, 0, FALSE)
              r == cmd_destroy_shelf(db, ShelfCmd("destroy_shelf", name))
          IN  (shelf # None /\ db_open_count(db, shelf) > 0)
              => r.errmsg = "has active opens" /\ r.db = db
    /\ (reply.command = "destroy_shelf" /\ reply.errmsg = "has active opens")
          => reply.errno = EBUSY

\* C8: a destroy_shelf that succeeds has removed the BOS rows, the xattrs
\* and the shelf, has moved the books of the shelf, and no other book, from
\* IN_USE to ZOMBIE, and has committed; the name then resolves to no shelf,
\* and a shelf created under it afterwards has no book and no xattr.
DestroyShelfClean ==
    \A name \in Names :
        LET shelf == db_get_shelf(db, name, 0, FALSE)
            r == cmd_destroy_shelf(db, ShelfCmd("destroy_shelf", name))
        IN  (shelf # None /\ r.errmsg = "")
            => /\ BosRows(r.db, shelf.id) = {}
               /\ \A b \in BookIds :
                    IF b \in BooksOnShelf(db, shelf.id)
                    THEN /\ db.books[b].allocated = ALLOC_INUSE
                         /\ r.db.books[b].allocated = ALLOC_ZOMBIE
                    ELSE r.db.books[b] = db.books[b]
               /\ \A k \in DOMAIN r.db.xattrs : k[1] # shelf.id
               /\ shelf.id \notin DOMAIN r.db.shelves
               /\ db_get_shelf(r.db, name, 0, FALSE) = None
               /\ r.db.disk = Tables(r.db)
               /\ \A new_id \in ShelfIds \ DOMAIN r.db.shelves,
                     new_handle \in Handles \ DOMAIN r.db.opened :
                    LET c == cmd_create_shelf(r.db,
                                ShelfCmd("create_shelf", name),
                                new_id, new_handle)
                    IN  /\ c.errmsg = ""
                        /\ c.ret.shelf.book_count = 0
                        /\ BosRows(c.db, c.ret.shelf.id) = {}
                        /\ db_list_xattrs(c.db, c.ret.shelf) = {}

\* a shelf that held books was destroyed
DestroyShelfWitness ==
    /\ reply.command = "destroy_shelf" /\ reply.errmsg = ""
    /\ reply.value.book_count > 0
    /\ \E b \in BookIds : db.books[b].allocated = ALLOC_ZOMBIE

\* C9: create_shelf succeeds whether the name exists or not: on a new name
\* it creates one shelf with no books and opens it, on an existing name it
\* opens the shelf and changes no shelf, book, BOS row or xattr; no two
\* shelves have the same name.
CreateShelfOpens ==
    /\ \A i, j \in DOMAIN db.shelves :
          db.shelves[i].name = db.shelves[j].name => i = j
    /\ \A name \in Names, new_handle \in Handles \ DOMAIN db.opened :
       \A new_id \in NewShelfIds(name) :
          LET shelf == db_get_shelf(db, name, 0, FALSE)
              c == cmd_create_shelf(db, ShelfCmd("create_shelf", name),
                                    new_id, new_handle)
          IN  /\ c.errmsg = ""
              /\ c.ret.shelf.name = name
              /\ c.db.opened[new_handle].shelf_id = c.ret.shelf.id
              /\ DOMAIN c.db.opened = DOMAIN db.opened \cup {new_handle}
              /\ c.db.books = db.books /\ c.db.bos = db.bos
              /\ c.db.xattrs = db.xattrs
              /\ IF shelf # None
                 THEN c.db.shelves = db.shelves /\ c.ret.shelf = shelf
                 ELSE /\ DOMAIN c.db.shelves = DOMAIN db.shelves \cup {new_id}
                      /\ new_id \notin DOMAIN db.shelves
                      /\ \A i \in DOMAIN db.shelves :
                            c.db.shelves[i] = db.shelves[i]
                      /\ c.ret.shelf.book_count = 0
                      /\ c.ret.shelf.size_bytes = 0

\* create_shelf has opened a shelf that existed and held a book
CreateShelfWitness ==
    /\ reply.command = "create_shelf" /\ reply.errmsg = ""
    /\ reply.value.shelf.book_count > 0

\* C10 (as claimed): close_shelf on a handle no open holds fails with
\* ESTALE and changes nothing.
CloseStale ==
    /\ \A handle \in Handles \cup {StaleHandle} :
          LET r == cmd_close_shelf(db, [command |-> "close_shelf",
                                        handle |-> handle,
                                        context |-> AnyContext])
          IN  handle \notin DOMAIN db.opened
              => r.errmsg # "" /\ r.db = db
    /\ (reply.command = "close_shelf" /\ reply.errmsg # "")
          => reply.errno = ESTALE

\* the policy the claims give a shelf: its xattr, RandomBooks when unset
PolicyOf(d, shelf) ==
    LET v == db_get_xattr(d, shelf, "user.LFS.AllocationPolicy")
    IN  IF v = NoValue THEN POLICY_DEFAULT ELSE v

ResizeCmd(name, id, size_bytes, context) ==
    [command |-> "resize_shelf", name |-> name, id |-> id,
     size_bytes |-> size_bytes, context |-> context]

\* the books a resize bound to the shelf, in seq_num order
BoundBy(d, r, shelf) ==
    LET bos == db_get_bos_by_shelf_id(r.db, shelf.id)
    IN  [i \in 1 .. (Len(bos) - shelf.book_count) |->
            bos[shelf.book_count + i].book_id]

\* C11 (as claimed): a resize that grows a shelf by delta books fails with
\* ENOSPC exactly when the shelf's allocation policy returns fewer than
\* delta books, and otherwise binds a list the policy may return.
ResizeByPolicy ==
    \A name \in Names, id \in ShelfIds, size_bytes \in Sizes,
       context \in Contexts :
        LET cmdict == ResizeCmd(name, id, size_bytes, context)
            shelf == db_get_shelf(db, name, id, TRUE)
            policy == PolicyOf(db, shelf)
            delta == _nbooks(size_bytes) - shelf.book_count
            lists == BookPolicy__call__(policy, db.books, context,
                                        Cardinality(Nodes), delta)
        IN  (/\ shelf # None
             /\ delta > 0
             /\ \E i \in DOMAIN _policies : _policies[i] = policy)
            => \A freebooks \in FreeLists(cmdict) :
                 LET r == cmd_resize_shelf(db, cmdict, freebooks)
                 IN  /\ (r.errmsg # "" /\ r.errno = ENOSPC)
                            <=> (\A l \in lists : Len(l) < delta)
                     /\ r.errmsg = "" => BoundBy(db, r, shelf) \in lists

AllXattrNames ==
    {"user.LFS.AllocationPolicy", "user.LFS.AllocationPolicyList",
     "user.LFS.Interleave", "user.LFS.Other", "user.LFS.a.b", "user.foo"}

XattrCmd(command, name, xattr) ==
    [command |-> command, name |-> name, id |-> 0, xattr |-> xattr,
     context |-> AnyContext]

SetXattrCmd(name, xattr, value) ==
    [command |-> "set_xattr", name |-> name, id |-> 0, xattr |-> xattr,
     value |-> value, context |-> AnyContext]

\* C12 (as claimed): on an existing shelf, a set_xattr of a user.LFS name
\* succeeds only for user.LFS.AllocationPolicy with a policy name as value
\* and otherwise fails with EINVAL and leaves the store as it was; a
\* remove_xattr of a user.LFS name is answered with EINVAL.
SetXattrChecked ==
    /\ \A name \in Names, xattr \in AllXattrNames, value \in AnyValues :
         LET cmdict == SetXattrCmd(name, xattr, value)
             r == cmd_set_xattr(db, cmdict)
         IN  (/\ db_get_shelf(db, name, 0, FALSE) # None
              /\ split(xattr)[2] = "LFS"
              /\ xattr_assist(db, cmdict, TRUE, FALSE).errmsg # "")
             => r.errmsg # "" /\ r.errno = EINVAL /\ r.db = db
    /\ reply.command = "remove_xattr" => reply.errno = EINVAL

\* what get_xattr answers for a name of a shelf: error or value
GetAnswer(d, name, xattr) ==
    LET g == cmd_get_xattr(d, XattrCmd("get_xattr", name, xattr))
    IN  [errmsg |-> g.errmsg, ret |-> g.ret]

\* whatever the command, a handler result r leaves every get_xattr answer of
\* the shelves that are still there as it was
KeepsXattrs(r) ==
    LET d2 == r.db
    IN  d2 # db =>
        \A name \in Names, xattr \in SetNames :
            (/\ db_get_shelf(db, name, 0, FALSE) # None
             /\ db_get_shelf(d2, name, 0, FALSE)
                    = db_get_shelf(db, name, 0, FALSE))
            => GetAnswer(d2, name, xattr) = GetAnswer(db, name, xattr)

LogZeroCmd(ids, context) ==
    [command |-> "log_zero", ids |-> ids, context |-> context]

\* C14 (as claimed): a log_zero from node N changes a book only from
\* ZOMBIE to FREE and only if node N owns it; when the list names a book of
\* another node, and its books of node N are distinct zombies so that
\* nothing else is wrong, the command fails with EINVAL; a successful one
\* leaves every listed book FREE and committed.
LogZeroOwned ==
    \A ids \in IdLists, context \in Contexts :
        LET r == cmd_log_zero(db, LogZeroCmd(ids, context))
            local == {i \in DOMAIN ids :
                        db.books[ids[i]].node_id = context.node_id}
        IN  /\ \A b \in BookIds :
                 r.db.books[b] # db.books[b]
                 => /\ db.books[b].node_id = context.node_id
                    /\ db.books[b].allocated = ALLOC_ZOMBIE
                    /\ r.db.books[b].allocated = ALLOC_FREE
            /\ (/\ local # DOMAIN ids
                /\ \A i \in local : db.books[ids[i]].allocated = ALLOC_ZOMBIE
                /\ \A i, j \in local : ids[i] = ids[j] => i = j)
               => r.errmsg # "" /\ r.errno = EINVAL
            /\ r.errmsg = ""
               => /\ \A i \in DOMAIN ids :
                       r.db.books[ids[i]].allocated = ALLOC_FREE
                  /\ r.db.disk = Tables(r.db)

\* C15: a kill_zombie_books from node N succeeds, moves every ZOMBIE book
\* of node N to FREE and leaves every other book, every shelf, BOS row,
\* xattr and open as it was.
KillZombieFrame ==
    \A context \in Contexts :
    \A zombies \in db_get_book_by_node(db, context.node_id, ALLOC_ZOMBIE,
                                       9999) :
        LET r == cmd_kill_zombie_books(db,
                     [command |-> "kill_zombie_books", context |-> context],
                     zombies)
        IN  /\ r.errmsg = ""
            /\ \A b \in BookIds :
                 r.db.books[b] =
                    IF /\ db.books[b].node_id = context.node_id
                       /\ db.books[b].allocated = ALLOC_ZOMBIE
                    THEN [db.books[b] EXCEPT !.allocated = ALLOC_FREE]
                    ELSE db.books[b]
            /\ r.db.shelves = db.shelves
            /\ r.db.bos = db.bos
            /\ r.db.xattrs = db.xattrs
            /\ r.db.opened = db.opened

\* a kill_zombie_books has run: the zombie of one node is still a zombie
\* and the book of another node is FREE and committed so
KillZombieWitness ==
    /\ reply.command = "kill_zombie_books" /\ reply.errmsg = ""
    /\ \E b, c \in BookIds :
         /\ db.books[b].allocated = ALLOC_ZOMBIE
         /\ db.books[c].allocated = ALLOC_FREE
         /\ db.books[c].node_id # db.books[b].node_id
         /\ db.disk.books[c].allocated = ALLOC_FREE

\* the FREE books of the rack that belong to the given nodes
FreeOn(nodes) ==
    {b \in DOMAIN pol.books :
        /\ pol.books[b].allocated = ALLOC_FREE
        /\ pol.books[b].node_id \in nodes}

RetSet == {pol.ret[i] : i \in DOMAIN pol.ret}

NoDuplicates(q) == \A i, j \in DOMAIN q : q[i] = q[j] => i = j

\* C16: what LocalNode returns for a request of n books are distinct FREE
\* books of interleave group node_id - 1 of the caller, n of them or all
\* the caller's node has when those are fewer, never a book of another node.
LocalNodeLocality ==
    pol.name = "LocalNode"
    => /\ \A i \in DOMAIN pol.ret :
            /\ intlv_group(pol.books[pol.ret[i]]) = pol.context.node_id - 1
            /\ pol.books[pol.ret[i]].allocated = ALLOC_FREE
       /\ NoDuplicates(pol.ret)
       /\ Len(pol.ret) = Min(pol.books_needed,
                             Cardinality(FreeOn({pol.context.node_id})))

\* LocalNode has returned fewer books than asked for although other nodes
\* had FREE books
LocalNodeWitness ==
    /\ pol.name = "LocalNode"
    /\ 0 < Len(pol.ret) /\ Len(pol.ret) < pol.books_needed
    /\ FreeOn(PolicyNodes \ {pol.context.node_id}) # {}

\* LZA order: by interleave group, then by in-group book number
Before(a, b) ==
    \/ intlv_group(pol.books[a]) < intlv_group(pol.books[b])
    \/ /\ intlv_group(pol.books[a]) = intlv_group(pol.books[b])
       /\ book_num(a) < book_num(b)

\* C17: LZAascending returns the first n FREE books in LZA order, strictly
\* increasing by (IG, book_num); LZAdescending returns the last n, strictly
\* decreasing.
LZAOrdered ==
    /\ pol.name \in {"LZAascending", "LZAdescending"}
       => /\ RetSet \subseteq FreeOn(PolicyNodes)
          /\ Len(pol.ret) = Min(pol.books_needed,
                                Cardinality(FreeOn(PolicyNodes)))
    /\ pol.name = "LZAascending"
       => /\ \A i, j \in DOMAIN pol.ret :
               i < j => Before(pol.ret[i], pol.ret[j])
          /\ \A r \in RetSet, b \in FreeOn(PolicyNodes) \ RetSet :
               Before(r, b)
    /\ pol.name = "LZAdescending"
       => /\ \A i, j \in DOMAIN pol.ret :
               i < j => Before(pol.ret[j], pol.ret[i])
          /\ \A r \in RetSet, b \in FreeOn(PolicyNodes) \ RetSet :
               Before(b, r)

\* LZAdescending has returned books of two interleave groups and left FREE
\* books behind
LZAOrderedWitness ==
    /\ pol.name = "LZAdescending"
    /\ \E r, q \in RetSet :
         intlv_group(pol.books[r]) # intlv_group(pol.books[q])
    /\ FreeOn(PolicyNodes) \ RetSet # {}

\* the nodes of the caller's enclosure but the caller, and the other nodes
EncOthers ==
    {n \in PolicyNodes : n # pol.context.node_id
                         /\ ((n - 1) \div 10) = ((pol.context.node_id - 1) \div 10)}

Outside ==
    {n \in PolicyNodes : ((n - 1) \div 10) # ((pol.context.node_id - 1) \div 10)}

\* C18: Nearest returns distinct FREE books: first those of the caller's
\* node, then, only if the request is not met, those of the other nodes of
\* the caller's enclosure, and books from outside the enclosure only when
\* node and enclosure together hold fewer than n FREE books.
NearestOrder ==
    LET nl == Min(pol.books_needed,
                  Cardinality(FreeOn({pol.context.node_id})))
        ne == Min(pol.books_needed - nl, Cardinality(FreeOn(EncOthers)))
        no == Min(pol.books_needed - nl - ne, Cardinality(FreeOn(Outside)))
    IN  pol.name = "Nearest"
        => /\ Len(pol.ret) = nl + ne + no
           /\ NoDuplicates(pol.ret)
           /\ \A i \in DOMAIN pol.ret :
                pol.ret[i] \in
                    IF i <= nl THEN FreeOn({pol.context.node_id})
                    ELSE IF i <= nl + ne THEN FreeOn(EncOthers)
                    ELSE FreeOn(Outside)

\* as in S3: Nearest from node 2 has returned local books and books of the
\* rest of enclosure 1 and none of the FREE books of enclosure 2
NearestWitness ==
    /\ pol.name = "Nearest" /\ pol.context.node_id = 2
    /\ RetSet \cap FreeOn({2}) # {}
    /\ RetSet \cap FreeOn(EncOthers) # {}
    /\ RetSet \cap FreeOn(Outside) = {}
    /\ FreeOn(Outside) # {}
    /\ FreeOn(EncOthers) \ RetSet # {}

Oldest(descriptors) ==
    {i \in DOMAIN descriptors :
        \A j \in DOMAIN descriptors :
            descriptors[i].mtime <= descriptors[j].mtime}

\* C20: the victim assign returns when it must evict is a bound entry of
\* the smallest mtime, and of the fewest mappings among the entries of that
\* mtime.
EvictsOldest ==
    (dm # None /\ dm.ret.kind = "Eviction") =>
        \E i \in Oldest(dm.self._descriptors) :
            /\ dm.ret.evictLZA = dm.self._descriptors[i]
            /\ \A j \in Oldest(dm.self._descriptors) :
                 mappings(dm.self._descriptors[i])
                     <= mappings(dm.self._descriptors[j])

\* C24: every call of the engine is answered: a handler that raised, by
\* assertion or otherwise, with errmsg and errno and no value; a command
\* that is not in the command set with errno ENOSYS, no handler having run
\* and the store as it was.
AlwaysAnswered ==
    /\ reply.errmsg # "" => reply.value = None
    /\ reply.command \notin commandset \cup {"none"} =>
            /\ reply.errmsg # ""
            /\ reply.errno = ENOSYS
    /\ \A command \in UnknownCommands :
            LET r == lookup_failed(db)
            IN  /\ command \notin commandset
                /\ r.db = db
                /\ r.errmsg # ""
                /\ r.errno = ENOSYS
                /\ r.ret = None

\* an unknown command has been answered on a store that holds a shelf with
\* a book
AlwaysAnsweredWitness ==
    /\ reply.command \in UnknownCommands
    /\ reply.errno = ENOSYS
    /\ db.bos # {}

\* the resizes of a state: the command and the list the store hands it
ResizeCmds ==
    {ResizeCmd(name, id, size_bytes, context) :
        name \in Names, id \in ShelfIds, size_bytes \in Sizes,
        context \in Contexts}

Resizes ==
    UNION {{[cmdict |-> cmdict, freebooks |-> freebooks] :
               freebooks \in FreeLists(cmdict)} : cmdict \in ResizeCmds}

ShrinkPopsTail ==
    \A c \in Resizes :
        LET shelf == db_get_shelf(db, c.cmdict.name, c.cmdict.id, TRUE)
            k == shelf.book_count
            d == k - _nbooks(c.cmdict.size_bytes)
        IN  (shelf # None /\ d > 0) =>
            LET r == cmd_resize_shelf(db, c.cmdict, c.freebooks)
                d2 == r.db
                before == db_get_bos_by_shelf_id(db, shelf.id)
                after == db_get_bos_by_shelf_id(d2, shelf.id)
                popped == {before[i].book_id : i \in (k - d + 1) .. k}
            IN  r.errmsg = "" =>
                /\ Len(before) = k
                /\ after = SubSeq(before, 1, k - d)
                /\ \A i \in (k - d + 1) .. k : before[i].seq_num = i
                /\ \A b \in popped :
                      /\ db.books[b].allocated = ALLOC_INUSE
                      /\ d2.books[b].allocated = ALLOC_ZOMBIE
                /\ \A b \in DOMAIN db.books :
                      b \notin popped => d2.books[b] = db.books[b]
                /\ d2.bos \ BosRows(d2, shelf.id)
                      = db.bos \ BosRows(db, shelf.id)

\* a shelf of two books can be shrunk to one, and the resize succeeds
ShrinkPopsTailWitness ==
    \E c \in Resizes :
        LET shelf == db_get_shelf(db, c.cmdict.name, c.cmdict.id, TRUE)
        IN  /\ shelf # None
            /\ shelf.book_count = 2
            /\ _nbooks(c.cmdict.size_bytes) = 1
            /\ cmd_resize_shelf(db, c.cmdict, c.freebooks).errmsg = ""

\* C27: a resize to a size of the shelf's current book_count leaves every
\* book and every BOS row as it was: to the current size it changes nothing
\* in the store, to another size only the size_bytes of the shelf, in the
\* rows at hand.
ResizeSameCount ==
    \A c \in Resizes :
        LET shelf == db_get_shelf(db, c.cmdict.name, c.cmdict.id, TRUE)
            new_size_bytes == c.cmdict.size_bytes
        IN  (shelf # None /\ _nbooks(new_size_bytes) = shelf.book_count) =>
            LET r == cmd_resize_shelf(db, c.cmdict, c.freebooks)
                d2 == r.db
            IN  r.errmsg = "" =>
                /\ d2.books = db.books
                /\ d2.bos = db.bos
                /\ new_size_bytes = shelf.size_bytes => d2 = db
                /\ Tables(d2) =
                      [Tables(db) EXCEPT
                          !.shelves[shelf.id].size_bytes = new_size_bytes]

\* a shelf of one book can be resized to another size of one book, and the
\* resize succeeds
ResizeSameCountWitness ==
    \E c \in Resizes :
        LET shelf == db_get_shelf(db, c.cmdict.name, c.cmdict.id, TRUE)
        IN  /\ shelf # None
            /\ shelf.book_count = 1
            /\ _nbooks(c.cmdict.size_bytes) = 1
            /\ c.cmdict.size_bytes # shelf.size_bytes
            /\ cmd_resize_shelf(db, c.cmdict, c.freebooks).errmsg = ""

\* C28: whichever policy was called with n, it returned at most n books,
\* every one of them FREE and none of them twice; Nearest's three tiers
\* make one list, so no book is in two of them.
PolicySafe ==
    (pol # None /\ pol.name # "none") =>
        /\ Len(pol.ret) <= pol.books_needed
        /\ \A i \in DOMAIN pol.ret :
              /\ pol.ret[i] \in DOMAIN pol.books
              /\ pol.books[pol.ret[i]].allocated = ALLOC_FREE
        /\ NoDuplicates(pol.ret)

\* RandomBooks has returned the books it was asked for, out of their LZA
\* order, from a rack where some book is in use
PolicySafeWitness ==
    /\ pol # None
    /\ pol.name = "RandomBooks"
    /\ pol.books_needed >= 2
    /\ Len(pol.ret) = pol.books_needed
    /\ pol.ret[1] > pol.ret[2]
    /\ \E b \in DOMAIN pol.books : pol.books[b].allocated = ALLOC_INUSE

\* the faults of a state: every baseLZA, pid and userVA, the ioctl going
\* well or not
Faults ==
    [baseLZA : DescLZAs, pid : DescPids, userVA : DescUserVAs,
     ioctl_ok : BOOLEAN]

Fault(f) ==
    assign(dm.self, f.baseLZA, f.pid, f.userVA, dm.now, f.ioctl_ok)

\* C29: assign on a baseLZA that is bound returns None, appends userVA to
\* the bucket of pid in the entry (a new bucket on the pid's first fault)
\* and sets the entry's mtime to the time of the call; the free indices,
\* the descriptor table, the bound LZAs with their indices and every other
\* entry stay as they were.
HitUpdates ==
    dm # None =>
    \A f \in Faults : \A i \in Find(dm.self._descriptors, f.baseLZA) :
        LET a == Fault(f)
            old == dm.self._descriptors
            new == a.self._descriptors
        IN  /\ a.ret = [kind |-> "None"]
            /\ a.self._available = dm.self._available
            /\ a.self._indices = dm.self._indices
            /\ a.self.hw = dm.self.hw
            /\ Len(new) = Len(old)
            /\ \A j \in DOMAIN old : j # i => new[j] = old[j]
            /\ new[i].baseLZA = f.baseLZA
            /\ new[i].index = old[i].index
            /\ new[i].mtime = dm.now
            /\ DOMAIN new[i].pids = DOMAIN old[i].pids \cup {f.pid}
            /\ \A p \in DOMAIN old[i].pids :
                  p # f.pid => new[i].pids[p] = old[i].pids[p]
            /\ new[i].pids[f.pid] =
                  IF f.pid \in DOMAIN old[i].pids
                  THEN Append(old[i].pids[f.pid], f.userVA)
                  ELSE <<f.userVA>>

\* an entry bound at an earlier second has been hit by a second pid
HitUpdatesWitness ==
    /\ dm # None
    /\ dm.ret.kind = "None"
    /\ \E i \in DOMAIN dm.self._descriptors :
         /\ DOMAIN dm.self._descriptors[i].pids = DescPids
         /\ dm.self._descriptors[i].mtime = dm.now
         /\ dm.now > 1
         /\ \E j \in DOMAIN dm.self._descriptors :
              dm.self._descriptors[j].mtime = 1

\* C30 (as claimed): assign returns an Eviction only for a baseLZA that is
\* not bound when no index is available; for a baseLZA that is not bound
\* when an index is available it binds the baseLZA to an available index
\* and returns None; after an assign that returned None the baseLZA is bound.
BindsWhenFree ==
    dm # None =>
    \A f \in Faults :
        LET a == Fault(f)
            bound == Find(dm.self._descriptors, f.baseLZA) # {}
            free == dm.self._available # <<>>
        IN  /\ a.ret.kind = "Eviction" => ~bound /\ ~free
            /\ (~bound /\ free) =>
                  /\ a.ret.kind = "None"
                  /\ \E i \in Find(a.self._descriptors, f.baseLZA) :
                        /\ a.self._descriptors[i].index
                              \in Range(dm.self._available)
                        /\ a.self._descriptors[i].index
                              \notin Range(a.self._available)
            /\ a.ret.kind = "None" =>
                  Find(a.self._descriptors, f.baseLZA) # {}

\* the flat-space start of a group as the translation is specified: the
\* books of the groups of a smaller number, times the book size
ig_start(lfs_globals, ig) ==
    SumBooks(lfs_globals.books_per_IG,
             {j \in DOMAIN lfs_globals.books_per_IG : j < ig})
    * lfs_globals.book_size_bytes

\* the shelf and the offset of the last shadow_offset
AskedShelf == shadow.self._shelfcache[shadow.call.shelf_name]

AskedOffset == shadow.call.shelf_offset

\* C21 (as claimed): for an offset below the size of the shelf shadow_offset
\* returns ig_start[ig] + bn * book_size + (off mod book_size) for the book
\* (ig, bn) at position off // book_size of the BOS, a value from 0 up to
\* but not including nvm_bytes_total.
TranslatorRoundTrip ==
    (shadow # None /\ shadow.call # None
        /\ AskedOffset < AskedShelf.size_bytes) =>
        LET book_size == shadow.lfs_globals.book_size_bytes
            book == AskedShelf.bos[(AskedOffset \div book_size) + 1]
        IN  /\ shadow.ret = ig_start(shadow.lfs_globals, book.intlv_group)
                             + (book.book_num * book_size)
                             + (AskedOffset % book_size)
            /\ 0 <= shadow.ret
            /\ shadow.ret < nvm_bytes_total(shadow.lfs_globals)

\* the transfers of a state: a shelf, an offset, and a length or the bytes
Spans(offset, length) ==
    (offset % shadow.self.book_size) + length > shadow.self.book_size

RECURSIVE SumLengths(_)
SumLengths(chunks) ==
    IF chunks = <<>> THEN 0
    ELSE Head(chunks).length + SumLengths(Tail(chunks))

\* the chunks follow one another from offset, each within one book and up
\* to its end unless it is the last, each translated by shadow_offset
Chunked(shelf_name, offset, length, chunks) ==
    /\ \A i \in DOMAIN chunks :
          /\ chunks[i].shelf_offset
                = offset + SumLengths(SubSeq(chunks, 1, i - 1))
          /\ chunks[i].length >= 1
          /\ (chunks[i].shelf_offset % shadow.self.book_size)
                + chunks[i].length <= shadow.self.book_size
          /\ chunks[i].shadow_offset
                = shadow_offset(shadow.self, shelf_name,
                                chunks[i].shelf_offset)
          /\ chunks[i].shadow_offset # 0 - 1
          /\ i < Len(chunks) =>
                (chunks[i].shelf_offset + chunks[i].length)
                    % shadow.self.book_size = 0
    /\ SumLengths(chunks) <= length
    /\ SumLengths(chunks) < length =>
          shadow_offset(shadow.self, shelf_name,
                        offset + SumLengths(chunks)) = 0 - 1

\* the bytes of the shelf from offset on, n of them, in a file
ShelfBytes(file, shelf_name, offset, n) ==
    [j \in 1 .. n |->
        file[shadow_offset(shadow.self, shelf_name, offset + j - 1) + 1]]

\* C22: a read or a write across a book boundary goes chunk by chunk, the
\* chunks following one another, none across a boundary, each translated
\* by shadow_offset, their lengths adding up to the length asked for; when
\* a chunk translates to -1 the read returns the bytes of the chunks before
\* it and the write raises.
SplitTransfers ==
    shadow # None =>
    \A shelf_name \in FileNames, offset \in FileOffsets :
        /\ \A length \in 1 .. MaxLen : Spans(offset, length) =>
              LET r == shadow_file_read(shadow.self, shadow.file,
                                        shelf_name, length, offset)
                  done == SumLengths(r.chunks)
              IN  /\ Chunked(shelf_name, offset, length, r.chunks)
                  /\ r.raised = ""
                  /\ r.ret = ShelfBytes(shadow.file, shelf_name, offset,
                                        done)
        /\ \A buf \in Bufs : Spans(offset, Len(buf)) =>
              LET w == shadow_file_write(shadow.self, shadow.file,
                                         shelf_name, buf, offset)
                  done == SumLengths(w.chunks)
              IN  /\ Chunked(shelf_name, offset, Len(buf), w.chunks)
                  /\ IF done = Len(buf)
                     THEN w.raised = "" /\ w.ret = Len(buf)
                     ELSE w.raised = "AssertionError"
                  /\ ShelfBytes(w.file, shelf_name, offset, done)
                        = SubSeq(buf, 1, done)

\* a write across the end of a shelf has raised after its first chunk, and
\* a read of three bytes across two boundaries returns them all
SplitTransfersWitness ==
    /\ shadow # None
    /\ shadow.op = "write"
    /\ shadow.raised = "AssertionError"
    /\ \E i \in DOMAIN shadow.file : shadow.file[i] = 1
    /\ \E shelf_name \in FileNames, offset \in FileOffsets :
         LET r == shadow_file_read(shadow.self, shadow.file, shelf_name,
                                   MaxLen, offset)
         IN  /\ Len(r.chunks) = 2
             /\ Len(r.ret) = MaxLen
             /\ r.chunks[2].shadow_offset
                   # r.chunks[1].shadow_offset + r.chunks[1].length

\* C23: bytes written to a shelf at an offset are read back from that offset
\* as they were written, for every range inside the shelf, within a book or
\* across a boundary, and the write leaves the other bytes of the shelf and
\* the bytes of every other shelf as they were.
WriteReadBack ==
    shadow # None =>
    \A shelf_name \in FileNames, offset \in FileOffsets, buf \in Bufs :
        offset + Len(buf)
            <= shadow.self._shelfcache[shelf_name].size_bytes =>
        LET w == shadow_file_write(shadow.self, shadow.file, shelf_name,
                                   buf, offset)
            r == shadow_file_read(shadow.self, w.file, shelf_name,
                                  Len(buf), offset)
        IN  /\ w.raised = ""
            /\ w.ret = Len(buf)
            /\ r.raised = ""
            /\ r.ret = buf
            /\ \A other \in FileNames :
                 \A o \in 0 .. (shadow.self._shelfcache[other].size_bytes
                                  - 1) :
                    (other # shelf_name \/ o < offset
                        \/ o >= offset + Len(buf)) =>
                    LET so == shadow_offset(shadow.self, other, o)
                    IN  w.file[so + 1] = shadow.file[so + 1]

\* both shelves hold books, and a read has returned three bytes, written
\* earlier across a book boundary, of a file that was all zeros
WriteReadBackWitness ==
    /\ shadow # None
    /\ \A name \in FileNames : shadow.self._shelfcache[name].bos # <<>>
    /\ shadow.op = "read"
    /\ shadow.raised = ""
    /\ shadow.ret = <<1, 0, 1>>

\* C31: an assign that returns an Eviction leaves the manager as it was:
\* the free indices, the bound entries (the victim among them, the new
\* baseLZA not) and the descriptor table; the new entry it returns is for
\* the faulting baseLZA and carries the victim's index.
EvictionLeavesTable ==
    dm # None =>
    \A f \in Faults :
        LET a == Fault(f)
        IN  a.ret.kind = "Eviction" =>
            /\ a.self._available = dm.self._available
            /\ a.self._descriptors = dm.self._descriptors
            /\ a.self.hw = dm.self.hw
            /\ a.self = dm.self
            /\ \E i \in DOMAIN a.self._descriptors :
                  a.self._descriptors[i] = a.ret.evictLZA
            /\ Find(a.self._descriptors, f.baseLZA) = {}
            /\ a.ret.newLZA.baseLZA = f.baseLZA
            /\ a.ret.newLZA.index = a.ret.evictLZA.index

\* an assign has returned an Eviction whose victim holds the second index
EvictionLeavesTableWitness ==
    /\ dm # None
    /\ dm.ret.kind = "Eviction"
    /\ dm.self._available = <<>>
    /\ Len(dm.self._descriptors) = Len(dm.self._indices)
    /\ dm.ret.evictLZA.index # dm.self._indices[1]
    /\ dm.ret.newLZA.index = dm.ret.evictLZA.index

\* the indices of the bound entries
BoundIndices == {dm.self._descriptors[i].index : i \in DOMAIN dm.self._descriptors}

\* C37 (as claimed): every index that is available or bound is one of the
\* indices the manager was made with, no index is both available and bound,
\* and no two bound LZAs hold the same index.
IndicesOfTheSet ==
    dm # None =>
    /\ Range(dm.self._available) \subseteq Range(dm.self._indices)
    /\ BoundIndices \subseteq Range(dm.self._indices)
    /\ Range(dm.self._available) \cap BoundIndices = {}
    /\ \A i, j \in DOMAIN dm.self._descriptors :
          dm.self._descriptors[i].index = dm.self._descriptors[j].index
              => i = j

RECURSIVE SumCounts(_, _)
SumCounts(shelves, ids) ==
    IF ids = {} THEN 0
    ELSE LET i == CHOOSE i \in ids : TRUE
         IN  shelves[i].book_count + SumCounts(shelves, ids \ {i})

\* C36: in the rows at hand and in the committed image, whatever commands
\* ran, a book that is IN_USE is in exactly one BOS row, a book that is FREE
\* or ZOMBIE is in none, and there are as many IN_USE books as the shelves'
\* book_counts add up to.
BooksAccounted ==
    \A t \in Images :
        /\ \A b \in BookIds :
              Cardinality({r \in t.bos : r.book_id = b})
                  = IF t.books[b].allocated = ALLOC_INUSE THEN 1 ELSE 0
        /\ Cardinality({b \in BookIds :
                           t.books[b].allocated = ALLOC_INUSE})
              = SumCounts(t.shelves, DOMAIN t.shelves)

\* a resize has bound the last FREE book: every book is IN_USE, on two
\* shelves
BooksAccountedWitness ==
    /\ reply.command = "resize_shelf" /\ reply.errmsg = ""
    /\ \A b \in BookIds : db.books[b].allocated = ALLOC_INUSE
    /\ \E r1, r2 \in db.bos : r1.shelf_id # r2.shelf_id

Bound(d) == {r.book_id : r \in d.bos}

\* C38: when every node's kill_zombie_books keeps being executed, a book
\* that is ZOMBIE becomes FREE; and a book leaves a shelf only as a ZOMBIE,
\* a ZOMBIE goes nowhere but to FREE, and only a FREE book is bound.
ZombiesFreed ==
    /\ \A b \in BookIds :
          (db.books[b].allocated = ALLOC_ZOMBIE)
              ~> (db.books[b].allocated = ALLOC_FREE)
    /\ [][\A b \in BookIds :
            /\ (b \in Bound(db) /\ b \notin Bound(db'))
                  => db'.books[b].allocated = ALLOC_ZOMBIE
            /\ db.books[b].allocated = ALLOC_ZOMBIE
                  => /\ db'.books[b].allocated
                           \in {ALLOC_ZOMBIE, ALLOC_FREE}
                     /\ b \notin Bound(db')
            /\ (b \notin Bound(db) /\ b \in Bound(db'))
                  => db.books[b].allocated = ALLOC_FREE]_db

\* kill_zombie_books has run for one node: its book is FREE again while
\* the other node's book, released by a shrink or a destroy, is a ZOMBIE
ZombiesFreedWitness ==
    /\ reply.command = "kill_zombie_books" /\ reply.errmsg = ""
    /\ \E b \in BookIds : db.books[b].allocated = ALLOC_ZOMBIE
    /\ \E b \in BookIds : db.books[b].allocated = ALLOC_FREE

\* the shadow object of scenario S4: groups of 3 and 2 books of 1 MiB, a
\* shelf of the books (1, 0) and (0, 2)
S4Globals == [book_size_bytes |-> 1048576, books_per_IG |-> (0 :> 3 @@ 1 :> 2)]

S4Self ==
    [shadow_support__init__(S4Globals) EXCEPT
        !._shelfcache =
            [name \in TranslatorNames |->
                [name |-> name, size_bytes |-> 2097152,
                 bos |-> <<[intlv_group |-> 1, book_num |-> 0],
                           [intlv_group |-> 0, book_num |-> 2]>>]]]

\* C32: shadow_offset returns -1 for every offset whose book index is not a
\* position of the shelf's BOS, so for every offset of a shelf without
\* books, and a flat offset for every other; in S4 the offset 2 MiB gives -1.
BeyondBosIsEOF ==
    shadow # None =>
    /\ \A shelf_name \in TranslatorNames, shelf_offset \in Offsets :
          LET bos == shadow.self._shelfcache[shelf_name].bos
              past == (shelf_offset \div shadow.self.book_size) >= Len(bos)
              so == shadow_offset(shadow.self, shelf_name, shelf_offset)
          IN  IF past THEN so = 0 - 1 ELSE so >= 0
    /\ shadow.call # None =>
          (AskedOffset >= Len(AskedShelf.bos) * shadow.self.book_size
              => shadow.ret = 0 - 1)
    /\ \A shelf_name \in TranslatorNames :
          /\ shadow_offset(S4Self, shelf_name, 2097152) = 0 - 1
          /\ shadow_offset(S4Self, shelf_name, 2097151) # 0 - 1

\* shadow_offset has returned -1 for the first offset past the last book of
\* a shelf of MaxBos books
BeyondBosIsEOFWitness ==
    /\ shadow # None /\ shadow.call # None
    /\ Len(AskedShelf.bos) = MaxBos
    /\ AskedOffset = MaxBos * shadow.self.book_size
    /\ shadow.ret = 0 - 1

\* C33 (as claimed): the flat-space start of every group is the sum of
\* books_per_IG[j] * book_size over the groups j of a smaller number,
\* whatever the number of groups.
IgStartInNumericOrder ==
    shadow # None =>
    \A ig \in DOMAIN shadow.lfs_globals.books_per_IG :
        shadow.self._igstart[ig] = ig_start(shadow.lfs_globals, ig)

\* where shadow_offset puts byte o of a book: the translation of offset o
\* of a shelf of that one book
FlatOf(book, o) ==
    shadow_offset([shadow.self EXCEPT
                      !._shelfcache =
                          [name \in TranslatorNames |->
                              [name |-> name, bos |-> <<book>>,
                               size_bytes |-> shadow.self.book_size]]],
                  CHOOSE name \in TranslatorNames : TRUE, o)

\* C40: two different books of the globals, each with a book_num below the
\* book count of its group, are translated to flat ranges that do not
\* overlap and lie within the flat space; so two different offsets of a
\* shelf never translate to one flat offset.
TranslationInjective ==
    shadow # None =>
    /\ \A b1, b2 \in BooksOf(shadow.lfs_globals) :
       \A o1, o2 \in 0 .. (shadow.self.book_size - 1) :
          /\ 0 <= FlatOf(b1, o1)
          /\ FlatOf(b1, o1) < nvm_bytes_total(shadow.lfs_globals)
          /\ FlatOf(b1, o1) = FlatOf(b2, o2) => (b1 = b2 /\ o1 = o2)
    /\ \A shelf_name \in TranslatorNames :
       \A o1, o2 \in Offsets :
          LET so1 == shadow_offset(shadow.self, shelf_name, o1)
              so2 == shadow_offset(shadow.self, shelf_name, o2)
          IN  (so1 # 0 - 1 /\ so1 = so2) => o1 = o2

\* a shelf of two books of one group, the second first, and an offset of
\* its second book translated
TranslationInjectiveWitness ==
    /\ shadow # None /\ shadow.call # None
    /\ Len(AskedShelf.bos) = 2
    /\ AskedShelf.bos[1].intlv_group = AskedShelf.bos[2].intlv_group
    /\ AskedShelf.bos[1].book_num > AskedShelf.bos[2].book_num
    /\ AskedOffset >= shadow.self.book_size
    /\ shadow.ret >= 0

\* the handles the record of a cached shelf lists for a process
Listed(self, ref, pid) ==
    IF pid \in DOMAIN self.heap[ref].open_handle
    THEN Range(self.heap[ref].open_handle[pid]) ELSE {}

\* C34 (as claimed): whatever opens, creates, releases, unlinks and renames
\* went before, the name of a shelf with live handles and each of these
\* handles are keys of the cache, all for one and the same record, and the
\* record lists under each pid exactly the live handles that pid opened.
CacheTracksLive ==
    shadow # None =>
    \A id \in CacheIds : LiveOn(id) # {} =>
        LET ref == shadow.self.byname[shadow.lib[id]]
        IN  /\ ref # 0
            /\ \A h \in LiveOn(id) : shadow.self.byfh[h] = ref
            /\ \A pid \in CachePids :
                  Listed(shadow.self, ref, pid)
                      = {h \in LiveOn(id) : shadow.live[h].pid = pid}

\* the records a cached shelf may be re-opened with, and the handle and
\* the process of the re-open
Reopens(cached) ==
    {[shelf |-> [id |-> cached.id, name |-> cached.name,
                 size_bytes |-> v.size_bytes, bos |-> v.bos],
      fh |-> fh, pid |-> pid] :
        v \in ShelfVersions,
        fh \in {h \in CacheHandles : shadow.live[h] = NotOpen},
        pid \in CachePids}

\* the shelf grew and its first books, as many as were cached, are the
\* cached ones
GrewInPlace(cached, shelf) ==
    /\ shelf.size_bytes > cached.size_bytes
    /\ Len(shelf.bos) >= Len(cached.bos)
    /\ SubSeq(shelf.bos, 1, Len(cached.bos)) = cached.bos

\* C35: a re-open of a cached shelf with a record that differs from the
\* cached one asks for no invalidation of PTEs exactly when the shelf grew
\* and the first n books of the new record, n the cached number of books,
\* are the cached ones; either way the name and the handles listed now
\* refer to the new record, which has the handles of the old one.
ReopenInvalidates ==
    shadow # None =>
    \A name \in CacheNames : shadow.self.byname[name] # 0 =>
        LET cached == shadow.self.heap[shadow.self.byname[name]]
        IN  \A o \in Reopens(cached) : Differs(cached, o.shelf) =>
                LET r == __setitem__(shadow.self, o.fh, o.shelf, o.pid)
                    ref == r.self.byname[name]
                IN  /\ r.raised = ""
                    /\ r.invalidate = ~GrewInPlace(cached, o.shelf)
                    /\ ref # 0
                    /\ r.self.heap[ref].size_bytes = o.shelf.size_bytes
                    /\ r.self.heap[ref].bos = o.shelf.bos
                    /\ r.self.heap[ref].id = cached.id
                    /\ r.self.heap[ref].name = name
                    /\ r.self.heap[ref].open_handle = cached.open_handle
                    /\ \A h \in CacheHandles :
                          shadow.self.byfh[h] # 0 => r.self.byfh[h] = ref

\* an open of a cached shelf has asked for the invalidation and left a
\* record of two books, and a re-open in which the shelf grows in place is
\* at hand
ReopenInvalidatesWitness ==
    /\ shadow # None
    /\ shadow.op = "open" /\ shadow.raised = "" /\ shadow.invalidate
    /\ \E name \in CacheNames :
         /\ shadow.self.byname[name] # 0
         /\ LET cached == shadow.self.heap[shadow.self.byname[name]]
            IN  /\ Len(cached.bos) = 2
                /\ \E o \in Reopens(cached) :
                      /\ Differs(cached, o.shelf)
                      /\ GrewInPlace(cached, o.shelf)

\* the handle a release step closes: the one open before and not after
Released(fh) ==
    /\ shadow'.op = "release"
    /\ shadow.live[fh] # NotOpen
    /\ shadow'.live[fh] = NotOpen

\* the keys of the cache are those of before but for the handle fh
OnlyHandleGone(fh) ==
    /\ shadow'.self.byfh[fh] = 0
    /\ \A h \in CacheHandles \ {fh} :
           (shadow'.self.byfh[h] = 0) <=> (shadow.self.byfh[h] = 0)
    /\ \A n \in CacheNames :
           (shadow'.self.byname[n] = 0) <=> (shadow.self.byname[n] = 0)

\* the cache after the step holds no key of the shelf
NoKeyOf(id) ==
    /\ shadow'.self.byname[shadow.lib[id]] = 0
    /\ \A h \in CacheHandles :
           shadow'.self.byfh[h] # 0 =>
               shadow'.self.heap[shadow'.self.byfh[h]].id # id

\* the release of a handle that is not the last live one of its shelf
\* removes that handle only
ReleaseKeepsTheRest ==
    [][\A fh \in CacheHandles :
           Released(fh) /\ LiveOn(shadow.live[fh].id) # {fh}
               => OnlyHandleGone(fh)]_shadow

\* the release of the last live handle of a shelf leaves no key of the shelf
LastReleaseClears ==
    [][\A fh \in CacheHandles :
           Released(fh) /\ LiveOn(shadow.live[fh].id) = {fh}
               => NoKeyOf(shadow.live[fh].id)]_shadow

\* the release of a listed handle takes it from the list of its process,
\* and the process from open_handle when the list is left empty
BucketPruned ==
    \A fh \in CacheHandles :
        LET self == shadow.self
            ref == self.byfh[fh]
            open_handle == self.heap[ref].open_handle
            r == release(self, fh)
        IN  ref # 0 /\ DOMAIN r.self.heap[ref] # DOMAIN None =>
                LET left == r.self.heap[ref].open_handle
                IN  /\ r.raised = ""
                    /\ \A p \in DOMAIN open_handle :
                           IF Range(open_handle[p]) = {fh}
                           THEN p \notin DOMAIN left
                           ELSE /\ p \in DOMAIN left
                                /\ Range(left[p]) =
                                       Range(open_handle[p]) \ {fh}
                    /\ DOMAIN left \subseteq DOMAIN open_handle

\* the deletion by name removes the name key and every handle key of the
\* record, and no other key
NameDeleteClears ==
    \A n \in CacheNames :
        LET self == shadow.self
            ref == self.byname[n]
            r == __delitem__(self, n, FALSE)
        IN  ref # 0 =>
                /\ r.raised = ""
                /\ r.self.byname = [self.byname EXCEPT ![n] = 0]
                /\ \A h \in CacheHandles :
                       r.self.byfh[h] =
                           IF self.byfh[h] = ref THEN 0 ELSE self.byfh[h]

\* C39: releasing the last live handle of a shelf removes the name key as
\* well, so that the cache holds no key for a shelf without live handles;
\* releasing a handle that is not the last removes only that handle, and its
\* process when that had no other handle, and keeps the name key and the
\* other handles; deleting by name removes the name and every handle key
ReleaseRemovesKeys ==
    /\ [](BucketPruned /\ NameDeleteClears)
    /\ LastReleaseClears
    /\ ReleaseKeepsTheRest

====
